---- MODULE Spec2Model ----
(***************************************************************************)
(* Model of the recipe aggregate store of gorecipes_v2                     *)
(* (store/recipe_store.go over the PostgreSQL schema database_design.sql). *)
(*                                                                         *)
(* Two request workers call the store concurrently.  Every SQL statement   *)
(* the store issues is one action.  Statements issued on a pgx.Tx write    *)
(* into the transaction's private write set and become visible at Commit;  *)
(* statements issued on the pool (s.db) run on the committed tables, one   *)
(* statement at a time (PostgreSQL READ COMMITTED, the default level).     *)
(***************************************************************************)
EXTENDS Integers, Sequences, FiniteSets, TLC

VARIABLES
    db,     \* the committed tables of the schema
    tx,     \* per worker: the open pgx.Tx (write set, row locks), or NoTx
    pc,     \* per worker: the statement the store call is about to issue
    op,     \* per worker: the locals of the store call in progress
    nops    \* number of store calls begun so far

vars == <<db, tx, pc, op, nops>>

(***************************************************************************)
(* Bounds                                                                  *)
(***************************************************************************)
\* store calls begun in one behaviour
MaxOps == 3

Workers == {"w1", "w2"}

(***************************************************************************)
(* Optional (nullable / pointer) values                                    *)
(***************************************************************************)
None == <<>>
Some(v) == <<v>>

(***************************************************************************)
(* uuid.New(): the k-th identifier generated by the seq-th store call.     *)
(* Identifiers of the schema's seed rows have seq 0.                       *)
(***************************************************************************)
NewUUID(o) == <<o.seq, o.nuuid + 1>>

\* collation order of the names used, for ORDER BY t.name
NameOrder ==
    <<"cup", "feta", "gram", "oil", "pinch", "salt", "vegan", "vegetarian">>
NameRank(n) == CHOOSE k \in 1..Len(NameOrder) : NameOrder[k] = n

(***************************************************************************)
(* Requests (models.RecipeRequest)                                         *)
(***************************************************************************)
\* a quantity (float64) is written in ten-thousandths: 200 is Qty(200),
\* 1.2345 is Some(12345)
Qty(whole) == Some(whole * 10000)

IngReq(name, qty, unit, notes, sort) ==
    [ingredient_name |-> name, quantity |-> qty, unit_name |-> unit,
     notes |-> notes, sort_order |-> sort]

StepReq(n, text, dur, temp) ==
    [step_number |-> n, instruction |-> text, duration_minutes |-> dur,
     temperature |-> temp]

TagReq(name) == [name |-> name]

Req(title, serves, prep, cook, ings, steps, tgs) ==
    [title |-> title, description |-> None, photo_filename |-> None,
     serves |-> serves, prep_time_minutes |-> prep, cook_time_minutes |-> cook,
     created_by |-> None, ingredients |-> ings, steps |-> steps, tags |-> tgs]

\* the concrete scenario of the specification
ReqTart ==
    Req("Tart", Some(4), Some(15), Some(25),
        <<IngReq("feta", Qty(200), Some("gram"), None, 0)>>,
        <<StepReq(1, "Preheat oven", None, None)>>,
        <<TagReq("vegetarian")>>)

\* lists given against their keys, an absent and an empty unit, a new unit,
\* a new tag, one time absent
ReqSalad ==
    Req("Salad", None, None, Some(20),
        <<IngReq("salt", None, Some(""), Some("to taste"), 1),
          IngReq("oil", Some(12345), Some("pinch"), None, 0)>>,
        <<StepReq(2, "Serve", Some(5), Some("cold")),
          StepReq(1, "Chop", None, None)>>,
        <<TagReq("vegetarian"), TagReq("vegan")>>)

\* scalar fields only, both times absent
ReqPlain ==
    Req("Plain", None, None, None, <<>>, <<>>, <<>>)

\* two ingredient lines with the same sort order and the same new unit, which
\* comes before the new ingredient
ReqSoup ==
    Req("Soup", Some(2), Some(10), None,
        <<IngReq("salt", Qty(1), Some("pinch"), None, 0),
          IngReq("oil", None, Some("pinch"), None, 0)>>,
        <<>>, <<>>)

\* a new ingredient before a new unit, a new tag
ReqDip ==
    Req("Dip", None, Some(5), Some(0),
        <<IngReq("oil", Qty(3), Some("pinch"), Some("warm"), 0)>>,
        <<StepReq(1, "Stir", Some(2), None)>>,
        <<TagReq("vegan")>>)

\* three ingredient lines
ReqThree ==
    Req("Three", Some(2), Some(0), Some(0),
        <<IngReq("feta", Qty(1), Some("cup"), None, 0),
          IngReq("salt", None, None, None, 1),
          IngReq("oil", Qty(2), Some("cup"), None, 2)>>,
        <<>>, <<>>)

\* the same step number twice
ReqDupStep ==
    Req("DupStep", None, Some(5), Some(5),
        <<IngReq("oil", None, None, None, 0)>>,
        <<StepReq(1, "Mix", None, None), StepReq(1, "Mix again", None, None)>>,
        <<>>)

\* the same ingredient twice
ReqDupIng ==
    Req("DupIng", None, None, None,
        <<IngReq("oil", Qty(1), None, None, 0),
          IngReq("oil", Qty(2), None, None, 1)>>,
        <<>>, <<>>)

\* the same tag twice
ReqDupTag ==
    Req("DupTag", None, None, None, <<>>, <<>>,
        <<TagReq("vegan"), TagReq("vegan")>>)

\* no title, as a body that leaves the field out
ReqNoTitle ==
    Req("", Some(4), None, None, <<>>, <<>>, <<>>)

\* a title too short, serves 0, and a line, a step and a tag out of range
ReqBadLines ==
    Req("ab", Some(0), Some(5), None,
        <<IngReq("oil", Qty(1), None, None, 0),
          IngReq("", Some(0), None, None, 0 - 1)>>,
        <<StepReq(0, "Stir", None, None)>>,
        <<TagReq("")>>)

\* an ingredient whose name has the words "not found" in it
ReqOddName ==
    Req("Broth", None, Some(5), Some(30),
        <<IngReq("lovage or celery if not found", Qty(1), None, None, 0)>>,
        <<>>, <<>>)

Requests ==
    {ReqTart, ReqSalad, ReqSoup, ReqDip, ReqPlain, ReqThree, ReqDupStep,
     ReqDupIng, ReqDupTag}

(***************************************************************************)
(* The schema: tables, generated column, seed rows                         *)
(***************************************************************************)
TableNames ==
    {"recipes", "ingredients", "measurement_units", "tags",
     "recipe_ingredients", "recipe_steps", "recipe_tags"}

EmptyTables == [t \in TableNames |-> {}]

\* a variant of TotalTimeMinutes that stores the cooking time alone
TotalTimeOfCook(prep, cook) == cook

\* total_time_minutes INTEGER GENERATED ALWAYS AS
\*   (prep_time_minutes + cook_time_minutes) STORED
\* SQL addition: NULL if either operand is NULL.
TotalTimeMinutes(prep, cook) ==
    IF prep = None \/ cook = None THEN None ELSE Some(prep[1] + cook[1])

\* a variant of NumericRound that truncates to thousandths
NumericTruncate(q) == IF q = None THEN None ELSE Some(q[1] \div 10)

\* quantity DECIMAL(10,3): the float64 of the request (ten-thousandths) is
\* rounded to thousandths, half away from zero
NumericRound(q) == IF q = None THEN None ELSE Some((q[1] + 5) \div 10)

\* scanning the DECIMAL(10,3) back into a *float64 (ten-thousandths)
ScanNumeric(n) == IF n = None THEN None ELSE Some(n[1] * 10)

\* CHECK (quantity IS NULL OR quantity > 0), on the rounded value
QuantityCheck(n) == n = None \/ n[1] > 0

\* a row of recipes, as INSERT / UPDATE leave it
RecipeRow(id, req, created, updated) ==
    [id |-> id, title |-> req.title, description |-> req.description,
     photo_filename |-> req.photo_filename, serves |-> req.serves,
     prep_time_minutes |-> req.prep_time_minutes,
     cook_time_minutes |-> req.cook_time_minutes,
     total_time_minutes |->
         TotalTimeMinutes(req.prep_time_minutes, req.cook_time_minutes),
     created_at |-> created, updated_at |-> updated,
     created_by |-> req.created_by]

\* sample rows the schema script inserts (a few of each table)
SeedTables ==
    [EmptyTables EXCEPT
        !["measurement_units"] =
            {[id |-> <<0, 1>>, name |-> "gram", abbreviation |-> Some("g"),
              system |-> "metric"],
             [id |-> <<0, 2>>, name |-> "cup", abbreviation |-> Some("cup"),
              system |-> "imperial"]},
        !["ingredients"] =
            {[id |-> <<0, 3>>, name |-> "salt", category |-> Some("seasoning")]},
        !["tags"] =
            {[id |-> <<0, 4>>, name |-> "vegetarian"]}]

(***************************************************************************)
(* Transactions (pgx.Tx on PostgreSQL, READ COMMITTED)                     *)
(*   ins: rows the transaction inserted (or new versions it wrote)         *)
(*   del: committed rows it deleted or superseded; a recipes row in del    *)
(*        is row-locked by the transaction until it ends                   *)
(*   ts:  CURRENT_TIMESTAMP, the transaction's start time                  *)
(***************************************************************************)
NoTx == [active |-> FALSE, ts |-> 0, ins |-> EmptyTables, del |-> EmptyTables]

\* s.db.Begin(ctx); the clock is the number of calls begun
BeginTx(now) == [NoTx EXCEPT !.active = TRUE, !.ts = now]

\* a variant of View that reads committed rows only
CommittedOnly(d, t) == d

\* what a statement of transaction t reads: committed rows and its own writes
View(d, t) == [n \in TableNames |-> (d[n] \ t.del[n]) \cup t.ins[n]]

\* tx.Commit(ctx): the write set becomes visible at once
CommitTables(d, t) == [n \in TableNames |-> (d[n] \ t.del[n]) \cup t.ins[n]]

TxInsert(t, n, row) == [t EXCEPT !.ins[n] = @ \cup {row}]

\* delete (or supersede) rows: own inserts vanish, committed rows go to del
TxDelete(t, n, rows) ==
    [t EXCEPT !.ins[n] = @ \ rows, !.del[n] = @ \cup (rows \ t.ins[n])]

\* a variant of RowLockedByOther without row locks
NeverLocked(w, id) == FALSE

\* another open transaction holds the row lock of recipe id
RowLockedByOther(w, id) ==
    \E v \in Workers \ {w} :
        tx[v].active /\ \E r \in tx[v].del["recipes"] : r.id = id

\* another open transaction has inserted, and not yet committed, a row of
\* table n with this name: a unique-index insert of the name waits for it
NamePendingIn(w, n, name) ==
    {v \in Workers \ {w} :
        tx[v].active /\ \E r \in tx[v].ins[n] : r.name = name}

(***************************************************************************)
(* Locals of a store call                                                  *)
(***************************************************************************)
NoReq == Req("", None, None, None, <<>>, <<>>, <<>>)
NoId == <<>>

IdleOp ==
    [kind |-> "none", seq |-> 0, nuuid |-> 0, id |-> NoId, req |-> NoReq,
     i |-> 0, ingredientID |-> NoId, unitID |-> None,
     tagID |-> NoId, recipe |-> None, list |-> <<>>, err |-> "", at |-> "",
     msg |-> "", code |-> 0, body |-> None]

NewOp(kind, seq, id, req) ==
    [IdleOp EXCEPT !.kind = kind, !.seq = seq, !.id = id, !.req = req]

\* the tables after the first call, CreateRecipe(ReqTart), has returned: the
\* state the sequential specification reaches from the seed rows in one call
StoredTables ==
    [SeedTables EXCEPT
        !["recipes"] = {RecipeRow(<<1, 1>>, ReqTart, 1, 1)},
        !["ingredients"] =
            @ \cup {[id |-> <<1, 2>>, name |-> "feta", category |-> None]},
        !["recipe_ingredients"] =
            {[recipe_id |-> <<1, 1>>, ingredient_id |-> <<1, 2>>,
              quantity |-> Some(200000), unit_id |-> Some(<<0, 1>>),
              notes |-> None, sort_order |-> 0]},
        !["recipe_steps"] =
            {[recipe_id |-> <<1, 1>>, step_number |-> 1,
              instruction |-> "Preheat oven", duration_minutes |-> None,
              temperature |-> None]},
        !["recipe_tags"] = {[recipe_id |-> <<1, 1>>, tag_id |-> <<0, 4>>]}]

\* two workers, one recipe stored
Init ==
    /\ db = StoredTables
    /\ tx = [w \in Workers |-> NoTx]
    /\ pc = [w \in Workers |-> "idle"]
    /\ op = [w \in Workers |-> IdleOp]
    /\ nops = 1

\* the database as the schema script leaves it
SeqInit ==
    /\ db = SeedTables
    /\ tx = [w \in Workers |-> NoTx]
    /\ pc = [w \in Workers |-> "idle"]
    /\ op = [w \in Workers |-> IdleOp]
    /\ nops = 0

(***************************************************************************)
(* Leaving a store call                                                    *)
(***************************************************************************)
\* a variant of Rollback that leaves the transaction open
KeepOpen(t) == t

\* defer tx.Rollback(ctx): the write set and the locks are dropped
Rollback(t) == NoTx

\* where a call failed: at its first statement, in a findOrCreate, at another
\* statement of the transaction (Commit included), or in a read on the pool
FailedAt(p) ==
    CASE p \in {"ins_recipe", "upd_recipe"} -> "first"
      [] p \in {"ing_sel", "ing_ins", "unit_sel", "unit_ins", "tag_sel",
                "tag_ins"} -> "resolve"
      [] p \in {"get_recipe", "get_ings", "get_steps", "get_tags",
                "list_recipes", "del_recipe"} -> "read"
      [] OTHER -> "tx"

\* what is left of the locals when the call returns: the loop variables are
\* out of scope
Returned(o, recipe, e, at) ==
    [o EXCEPT !.i = 0, !.nuuid = 0, !.ingredientID = NoId, !.unitID = None,
              !.tagID = NoId, !.recipe = recipe, !.err = e, !.at = at]

\* uuid.UUID.String(), on the identifiers written <<a, b>>
UUIDString(id) == ToString(id[1]) \o "-" \o ToString(id[2])

\* the text of the error a statement returned: a unique violation, a
\* deadlock, or another failure of the connection or the context
CauseText(e) ==
    CASE e = "conflict" ->
           "ERROR: duplicate key value violates unique constraint (SQLSTATE 23505)"
      [] e = "deadlock" -> "ERROR: deadlock detected (SQLSTATE 40P01)"
      [] OTHER -> "context canceled"

\* err.Error() of what the store returns when the statement at p failed:
\* the fmt.Errorf wrappers of CreateRecipe, UpdateRecipe, the findOrCreate
\* functions, GetRecipeByID, ListRecipes and DeleteRecipe
ErrorText(p, o, e) ==
    LET id == UUIDString(o.id)
        upd == o.kind = "update"
        forUpdate == IF upd THEN " for update" ELSE ""
        updated == IF upd THEN "updated " ELSE ""
        ing == o.req.ingredients[o.i].ingredient_name
        unit == o.req.ingredients[o.i].unit_name[1]
        tag == o.req.tags[o.i].name
        cause == CauseText(e)
    IN  CASE e = "not_found" /\ p = "get_recipe" ->
               "recipe with ID " \o id \o " not found"
          [] e = "not_found" /\ p = "upd_recipe" ->
               "recipe with ID " \o id \o " not found for update"
          [] e = "not_found" /\ p = "del_recipe" ->
               "recipe with ID " \o id \o " not found for deletion"
          [] p = "ins_recipe" -> "failed to insert recipe: " \o cause
          [] p = "upd_recipe" ->
               "failed to update recipe " \o id \o ": " \o cause
          [] p \in {"del_ri", "del_rs", "del_rt"} ->
               "failed to delete old relations for recipe " \o id \o ": "
                   \o cause
          [] p = "ing_sel" ->
               "processing ingredient " \o ing \o forUpdate
                   \o ": failed to query ingredient by name " \o ing \o ": "
                   \o cause
          [] p = "ing_ins" ->
               "processing ingredient " \o ing \o forUpdate
                   \o ": failed to create new ingredient " \o ing \o ": "
                   \o cause
          [] p = "unit_sel" ->
               "processing measurement unit " \o unit \o forUpdate
                   \o ": failed to query measurement unit by name " \o unit
                   \o ": " \o cause
          [] p = "unit_ins" ->
               "processing measurement unit " \o unit \o forUpdate
                   \o ": failed to create new measurement unit " \o unit
                   \o ": " \o cause
          [] p = "ri_ins" ->
               "failed to insert " \o updated \o "recipe ingredient link for "
                   \o ing \o ": " \o cause
          [] p = "rs_ins" ->
               "failed to insert " \o updated \o "recipe step "
                   \o ToString(o.req.steps[o.i].step_number) \o ": " \o cause
          [] p = "tag_sel" ->
               "processing tag " \o tag \o forUpdate
                   \o ": failed to query tag by name " \o tag \o ": " \o cause
          [] p = "tag_ins" ->
               "processing tag " \o tag \o forUpdate
                   \o ": failed to create new tag " \o tag \o ": " \o cause
          [] p = "rt_ins" ->
               "failed to insert " \o updated \o "recipe tag link for "
                   \o tag \o ": " \o cause
          [] p = "commit" ->
               IF upd
               THEN "failed to commit update transaction for recipe " \o id
                        \o ": " \o cause
               ELSE "failed to commit transaction: " \o cause
          [] p = "get_recipe" -> "failed to get recipe " \o id \o ": " \o cause
          [] p = "get_ings" ->
               "failed to get ingredients for recipe " \o id \o ": " \o cause
          [] p = "get_steps" ->
               "failed to get steps for recipe " \o id \o ": " \o cause
          [] p = "get_tags" ->
               "failed to get tags for recipe " \o id \o ": " \o cause
          [] p = "list_recipes" -> "failed to list recipes: " \o cause
          [] OTHER -> "failed to delete recipe with ID " \o id \o ": " \o cause

\* the locals of a call that returns the error e from the statement it is at
Failed(w, e) ==
    [Returned(op[w], None, e, FailedAt(pc[w]))
        EXCEPT !.msg = ErrorText(pc[w], op[w], e)]

\* a variant of Fail that commits the write set instead of discarding it
FailCommitting(w, e) ==
    /\ pc' = [pc EXCEPT ![w] = "done"]
    /\ op' = [op EXCEPT ![w] = Failed(w, e)]
    /\ db' = CommitTables(db, tx[w])
    /\ tx' = [tx EXCEPT ![w] = NoTx]
    /\ UNCHANGED nops

\* return nil, fmt.Errorf(...): the deferred Rollback runs
Fail(w, e) ==
    /\ pc' = [pc EXCEPT ![w] = "done"]
    /\ op' = [op EXCEPT ![w] = Failed(w, e)]
    /\ tx' = [tx EXCEPT ![w] = Rollback(tx[w])]
    /\ UNCHANGED <<db, nops>>

\* a statement of the open transaction succeeded
Step(w, t, o, next) ==
    /\ tx' = [tx EXCEPT ![w] = t]
    /\ op' = [op EXCEPT ![w] = o]
    /\ pc' = [pc EXCEPT ![w] = next]
    /\ UNCHANGED <<db, nops>>

(***************************************************************************)
(* The three loops shared by CreateRecipe and UpdateRecipe                 *)
(***************************************************************************)
PhaseTags(o) == IF Len(o.req.tags) > 0 THEN "tag_sel" ELSE "commit"

PhaseSteps(o) == IF Len(o.req.steps) > 0 THEN "rs_ins" ELSE PhaseTags(o)

PhaseIngredients(o) ==
    IF Len(o.req.ingredients) > 0 THEN "ing_sel" ELSE PhaseSteps(o)

\* a variant of HasUnitName that takes the empty string for a name
UnitNameNotNil(line) == line.unit_name # None

\* if ingReq.UnitName != nil && *ingReq.UnitName != ""
HasUnitName(line) == line.unit_name # None /\ line.unit_name[1] # ""

PhaseUnit(line) == IF HasUnitName(line) THEN "unit_sel" ELSE "ri_ins"

\* a variant of NameTaken without the unique index
NameNeverTaken(w, n, name) == FALSE

\* SELECT id FROM <table> WHERE name = $1   (inside the transaction)
SelectByName(w, n, name) == {r \in View(db, tx[w])[n] : r.name = name}

\* the UNIQUE(name) index of a reference table rejects the insert: a row of
\* that name is committed, or was inserted by this transaction
NameTaken(w, n, name) == \E r \in View(db, tx[w])[n] : r.name = name

(***************************************************************************)
(* CreateRecipe                                                            *)
(***************************************************************************)
\* s.db.Begin(ctx)
CreateRecipe(w, req) ==
    /\ pc[w] = "idle"
    /\ nops < MaxOps
    /\ nops' = nops + 1
    /\ op' = [op EXCEPT ![w] = NewOp("create", nops + 1, NoId, req)]
    /\ tx' = [tx EXCEPT ![w] = BeginTx(nops + 1)]
    /\ pc' = [pc EXCEPT ![w] = "ins_recipe"]
    /\ UNCHANGED db

\* newRecipeID := uuid.New(); INSERT INTO recipes ... RETURNING id
InsertRecipe(w) ==
    /\ pc[w] = "ins_recipe"
    /\ LET o == op[w]
           id == NewUUID(o)
           row == RecipeRow(id, o.req, tx[w].ts, tx[w].ts)
           o2 == [o EXCEPT !.id = id, !.nuuid = @ + 1, !.i = 1]
       IN  Step(w, TxInsert(tx[w], "recipes", row), o2, PhaseIngredients(o2))

\* findOrCreateIngredient: the SELECT
SelectIngredient(w) ==
    /\ pc[w] = "ing_sel"
    /\ LET o == op[w]
           line == o.req.ingredients[o.i]
           found == SelectByName(w, "ingredients", line.ingredient_name)
       IN  IF found # {}
           THEN Step(w, tx[w],
                     [o EXCEPT !.ingredientID = (CHOOSE r \in found : TRUE).id,
                               !.unitID = None],
                     PhaseUnit(line))
           ELSE Step(w, tx[w], o, "ing_ins")

\* findOrCreateIngredient: uuid.New() and the INSERT
InsertIngredient(w) ==
    /\ pc[w] = "ing_ins"
    /\ LET o == op[w]
           line == o.req.ingredients[o.i]
           name == line.ingredient_name
           id == NewUUID(o)
           row == [id |-> id, name |-> name, category |-> None]
       IN  /\ NamePendingIn(w, "ingredients", name) = {}
           /\ IF NameTaken(w, "ingredients", name)
              THEN Fail(w, "conflict")
              ELSE Step(w, TxInsert(tx[w], "ingredients", row),
                        [o EXCEPT !.ingredientID = id, !.nuuid = @ + 1,
                                  !.unitID = None],
                        PhaseUnit(line))

\* findOrCreateMeasurementUnit: the SELECT
SelectUnit(w) ==
    /\ pc[w] = "unit_sel"
    /\ LET o == op[w]
           name == o.req.ingredients[o.i].unit_name[1]
           found == SelectByName(w, "measurement_units", name)
       IN  IF found # {}
           THEN Step(w, tx[w],
                     [o EXCEPT !.unitID = Some((CHOOSE r \in found : TRUE).id)],
                     "ri_ins")
           ELSE Step(w, tx[w], o, "unit_ins")

\* a variant of InsertUnit that stores the system 'other'
InsertUnitOther(w) ==
    /\ pc[w] = "unit_ins"
    /\ LET o == op[w]
           name == o.req.ingredients[o.i].unit_name[1]
           id == NewUUID(o)
           row == [id |-> id, name |-> name, abbreviation |-> None,
                   system |-> "other"]
       IN  /\ NamePendingIn(w, "measurement_units", name) = {}
           /\ IF NameTaken(w, "measurement_units", name)
              THEN Fail(w, "conflict")
              ELSE Step(w, TxInsert(tx[w], "measurement_units", row),
                        [o EXCEPT !.unitID = Some(id), !.nuuid = @ + 1],
                        "ri_ins")

\* findOrCreateMeasurementUnit: uuid.New() and the INSERT, system 'metric'
InsertUnit(w) ==
    /\ pc[w] = "unit_ins"
    /\ LET o == op[w]
           name == o.req.ingredients[o.i].unit_name[1]
           id == NewUUID(o)
           row == [id |-> id, name |-> name, abbreviation |-> None,
                   system |-> "metric"]
       IN  /\ NamePendingIn(w, "measurement_units", name) = {}
           /\ IF NameTaken(w, "measurement_units", name)
              THEN Fail(w, "conflict")
              ELSE Step(w, TxInsert(tx[w], "measurement_units", row),
                        [o EXCEPT !.unitID = Some(id), !.nuuid = @ + 1],
                        "ri_ins")

\* a variant of InsertRecipeIngredient without the unique constraint
InsertRecipeIngredientUnchecked(w) ==
    /\ pc[w] = "ri_ins"
    /\ LET o == op[w]
           line == o.req.ingredients[o.i]
           row == [recipe_id |-> o.id, ingredient_id |-> o.ingredientID,
                   quantity |-> NumericRound(line.quantity),
                   unit_id |-> o.unitID,
                   notes |-> line.notes, sort_order |-> line.sort_order]
       IN  IF ~QuantityCheck(row.quantity)
           THEN Fail(w, "fault")
           ELSE IF o.i < Len(o.req.ingredients)
                THEN Step(w, TxInsert(tx[w], "recipe_ingredients", row),
                          [o EXCEPT !.i = @ + 1], "ing_sel")
                ELSE Step(w, TxInsert(tx[w], "recipe_ingredients", row),
                          [o EXCEPT !.i = 1], PhaseSteps(o))

\* INSERT INTO recipe_ingredients; UNIQUE(recipe_id, ingredient_id)
InsertRecipeIngredient(w) ==
    /\ pc[w] = "ri_ins"
    /\ LET o == op[w]
           line == o.req.ingredients[o.i]
           row == [recipe_id |-> o.id, ingredient_id |-> o.ingredientID,
                   quantity |-> NumericRound(line.quantity),
                   unit_id |-> o.unitID,
                   notes |-> line.notes, sort_order |-> line.sort_order]
           dup == \E r \in View(db, tx[w])["recipe_ingredients"] :
                      r.recipe_id = o.id /\ r.ingredient_id = o.ingredientID
       IN  IF dup
           THEN Fail(w, "conflict")
           ELSE IF ~QuantityCheck(row.quantity)
           THEN Fail(w, "fault")
           ELSE IF o.i < Len(o.req.ingredients)
                THEN Step(w, TxInsert(tx[w], "recipe_ingredients", row),
                          [o EXCEPT !.i = @ + 1], "ing_sel")
                ELSE Step(w, TxInsert(tx[w], "recipe_ingredients", row),
                          [o EXCEPT !.i = 1], PhaseSteps(o))

\* a variant of InsertRecipeStep without the unique constraint
InsertRecipeStepUnchecked(w) ==
    /\ pc[w] = "rs_ins"
    /\ LET o == op[w]
           st == o.req.steps[o.i]
           row == [recipe_id |-> o.id, step_number |-> st.step_number,
                   instruction |-> st.instruction,
                   duration_minutes |-> st.duration_minutes,
                   temperature |-> st.temperature]
       IN  IF o.i < Len(o.req.steps)
           THEN Step(w, TxInsert(tx[w], "recipe_steps", row),
                     [o EXCEPT !.i = @ + 1], "rs_ins")
           ELSE Step(w, TxInsert(tx[w], "recipe_steps", row),
                     [o EXCEPT !.i = 1], PhaseTags(o))

\* INSERT INTO recipe_steps; UNIQUE(recipe_id, step_number)
InsertRecipeStep(w) ==
    /\ pc[w] = "rs_ins"
    /\ LET o == op[w]
           st == o.req.steps[o.i]
           row == [recipe_id |-> o.id, step_number |-> st.step_number,
                   instruction |-> st.instruction,
                   duration_minutes |-> st.duration_minutes,
                   temperature |-> st.temperature]
           dup == \E r \in View(db, tx[w])["recipe_steps"] :
                      r.recipe_id = o.id /\ r.step_number = st.step_number
       IN  IF dup
           THEN Fail(w, "conflict")
           ELSE IF o.i < Len(o.req.steps)
                THEN Step(w, TxInsert(tx[w], "recipe_steps", row),
                          [o EXCEPT !.i = @ + 1], "rs_ins")
                ELSE Step(w, TxInsert(tx[w], "recipe_steps", row),
                          [o EXCEPT !.i = 1], PhaseTags(o))

\* findOrCreateTag: the SELECT
SelectTag(w) ==
    /\ pc[w] = "tag_sel"
    /\ LET o == op[w]
           found == SelectByName(w, "tags", o.req.tags[o.i].name)
       IN  IF found # {}
           THEN Step(w, tx[w],
                     [o EXCEPT !.tagID = (CHOOSE r \in found : TRUE).id],
                     "rt_ins")
           ELSE Step(w, tx[w], o, "tag_ins")

\* findOrCreateTag: uuid.New() and the INSERT
InsertTag(w) ==
    /\ pc[w] = "tag_ins"
    /\ LET o == op[w]
           name == o.req.tags[o.i].name
           id == NewUUID(o)
           row == [id |-> id, name |-> name]
       IN  /\ NamePendingIn(w, "tags", name) = {}
           /\ IF NameTaken(w, "tags", name)
              THEN Fail(w, "conflict")
              ELSE Step(w, TxInsert(tx[w], "tags", row),
                        [o EXCEPT !.tagID = id, !.nuuid = @ + 1], "rt_ins")

\* a variant of InsertRecipeTag with ON CONFLICT DO NOTHING
InsertRecipeTagOnce(w) ==
    /\ pc[w] = "rt_ins"
    /\ LET o == op[w]
           row == [recipe_id |-> o.id, tag_id |-> o.tagID]
       IN  IF o.i < Len(o.req.tags)
           THEN Step(w, TxInsert(tx[w], "recipe_tags", row),
                     [o EXCEPT !.i = @ + 1], "tag_sel")
           ELSE Step(w, TxInsert(tx[w], "recipe_tags", row),
                     [o EXCEPT !.i = 1], "commit")

\* INSERT INTO recipe_tags; PRIMARY KEY (recipe_id, tag_id)
InsertRecipeTag(w) ==
    /\ pc[w] = "rt_ins"
    /\ LET o == op[w]
           row == [recipe_id |-> o.id, tag_id |-> o.tagID]
           dup == row \in View(db, tx[w])["recipe_tags"]
       IN  IF dup
           THEN Fail(w, "conflict")
           ELSE IF o.i < Len(o.req.tags)
                THEN Step(w, TxInsert(tx[w], "recipe_tags", row),
                          [o EXCEPT !.i = @ + 1], "tag_sel")
                ELSE Step(w, TxInsert(tx[w], "recipe_tags", row),
                          [o EXCEPT !.i = 1], "commit")

\* a variant of Commit that leaves the transaction handle open
CommitLeavingOpen(w) ==
    /\ pc[w] = "commit"
    /\ db' = CommitTables(db, tx[w])
    /\ pc' = [pc EXCEPT ![w] = "get_recipe"]
    /\ UNCHANGED <<tx, op, nops>>

\* tx.Commit(ctx), then the call goes on to s.GetRecipeByID
Commit(w) ==
    /\ pc[w] = "commit"
    /\ db' = CommitTables(db, tx[w])
    /\ tx' = [tx EXCEPT ![w] = NoTx]
    /\ pc' = [pc EXCEPT ![w] = "get_recipe"]
    /\ UNCHANGED <<op, nops>>

(***************************************************************************)
(* GetRecipeByID: four statements on the pool, each on the tables as       *)
(* committed when it runs                                                  *)
(***************************************************************************)
\* a variant of Orderings without the ORDER BY: the rows in any order
AnyOrder(S, key) ==
    {s \in [1..Cardinality(S) -> S] :
        \A a, b \in 1..Cardinality(S) : a < b => s[a] # s[b]}

\* every ordering of the rows S that ORDER BY Key admits
Orderings(S, key) ==
    {s \in [1..Cardinality(S) -> S] :
        \A a, b \in 1..Cardinality(S) :
            a < b => s[a] # s[b] /\ key[s[a]] <= key[s[b]]}

\* the scalar columns the first SELECT scans; the three slices start nil
ScanRecipe(r) ==
    [id |-> r.id, title |-> r.title, description |-> r.description,
     photo_filename |-> r.photo_filename, serves |-> r.serves,
     prep_time_minutes |-> r.prep_time_minutes,
     cook_time_minutes |-> r.cook_time_minutes,
     total_time_minutes |-> r.total_time_minutes,
     created_at |-> r.created_at, updated_at |-> r.updated_at,
     created_by |-> r.created_by,
     ingredients |-> <<>>, steps |-> <<>>, tags |-> <<>>]

\* LEFT JOIN measurement_units mu ON ri.unit_id = mu.id; ing.Unit stays nil
\* when mu.id is NULL
ScanUnit(d, unit_id) ==
    LET found == {u \in d["measurement_units"] : Some(u.id) = unit_id}
    IN  IF found = {} THEN None
        ELSE LET u == CHOOSE x \in found : TRUE
             IN  Some([id |-> u.id, name |-> u.name,
                       abbreviation |-> u.abbreviation, system |-> u.system])

\* recipe_ingredients ri JOIN ingredients i ... WHERE ri.recipe_id = $1
IngredientRows(d, id) ==
    {[ingredient_id |-> ri.ingredient_id, ingredient_name |-> i.name,
      ingredient_description |-> i.category,
      quantity |-> ScanNumeric(ri.quantity),
      notes |-> ri.notes, sort_order |-> ri.sort_order,
      unit |-> ScanUnit(d, ri.unit_id)] :
        <<ri, i>> \in {p \in d["recipe_ingredients"] \X d["ingredients"] :
                        p[1].recipe_id = id /\ p[1].ingredient_id = p[2].id}}

\* SELECT ... FROM recipe_steps WHERE recipe_id = $1
StepRows(d, id) ==
    {[step_number |-> r.step_number, instruction |-> r.instruction,
      duration_minutes |-> r.duration_minutes, temperature |-> r.temperature] :
        r \in {x \in d["recipe_steps"] : x.recipe_id = id}}

\* recipe_tags rt JOIN tags t ON rt.tag_id = t.id WHERE rt.recipe_id = $1
TagRows(d, id) ==
    {[id |-> t.id, name |-> t.name] :
        t \in {x \in d["tags"] :
                 [recipe_id |-> id, tag_id |-> x.id] \in d["recipe_tags"]}}

\* a variant of StepNumberKey for ORDER BY step_number DESC
StepNumberDescending(r) == 0 - r.step_number

SortOrderKey(r) == r.sort_order
StepNumberKey(r) == r.step_number
TagNameKey(r) == NameRank(r.name)

\* the pool statement of a read found nothing / failed
FailRead(w, e) ==
    /\ pc' = [pc EXCEPT ![w] = "done"]
    /\ op' = [op EXCEPT ![w] = Failed(w, e)]
    /\ UNCHANGED <<db, tx, nops>>

GetRecipeByID(w, id) ==
    /\ pc[w] = "idle"
    /\ nops < MaxOps
    /\ nops' = nops + 1
    /\ op' = [op EXCEPT ![w] = NewOp("get", nops + 1, id, NoReq)]
    /\ pc' = [pc EXCEPT ![w] = "get_recipe"]
    /\ UNCHANGED <<db, tx>>

\* 1. main recipe details; pgx.ErrNoRows is "recipe with ID ... not found"
GetRecipeRow(w) ==
    /\ pc[w] = "get_recipe"
    /\ LET found == {r \in db["recipes"] : r.id = op[w].id}
       IN  IF found = {}
           THEN FailRead(w, "not_found")
           ELSE /\ op' = [op EXCEPT ![w].recipe =
                              Some(ScanRecipe(CHOOSE r \in found : TRUE))]
                /\ pc' = [pc EXCEPT ![w] = "get_ings"]
                /\ UNCHANGED <<db, tx, nops>>

\* 2. ingredients, ORDER BY ri.sort_order
GetIngredients(w) ==
    /\ pc[w] = "get_ings"
    /\ \E s \in Orderings(IngredientRows(db, op[w].id),
                         [r \in IngredientRows(db, op[w].id) |-> SortOrderKey(r)]) :
           op' = [op EXCEPT ![w].recipe = Some([@[1] EXCEPT !.ingredients = s])]
    /\ pc' = [pc EXCEPT ![w] = "get_steps"]
    /\ UNCHANGED <<db, tx, nops>>

\* 3. steps, ORDER BY step_number
GetSteps(w) ==
    /\ pc[w] = "get_steps"
    /\ \E s \in Orderings(StepRows(db, op[w].id),
                         [r \in StepRows(db, op[w].id) |-> StepNumberKey(r)]) :
           op' = [op EXCEPT ![w].recipe = Some([@[1] EXCEPT !.steps = s])]
    /\ pc' = [pc EXCEPT ![w] = "get_tags"]
    /\ UNCHANGED <<db, tx, nops>>

\* 4. tags, ORDER BY t.name; return recipe, nil
GetTags(w) ==
    /\ pc[w] = "get_tags"
    /\ \E s \in Orderings(TagRows(db, op[w].id),
                         [r \in TagRows(db, op[w].id) |-> TagNameKey(r)]) :
           op' = [op EXCEPT ![w] =
                     Returned(@, Some([@.recipe[1] EXCEPT !.tags = s]), "", "")]
    /\ pc' = [pc EXCEPT ![w] = "done"]
    /\ UNCHANGED <<db, tx, nops>>

(***************************************************************************)
(* UpdateRecipe                                                            *)
(***************************************************************************)
UpdateRecipe(w, id, req) ==
    /\ pc[w] = "idle"
    /\ nops < MaxOps
    /\ nops' = nops + 1
    /\ op' = [op EXCEPT ![w] = NewOp("update", nops + 1, id, req)]
    /\ tx' = [tx EXCEPT ![w] = BeginTx(nops + 1)]
    /\ pc' = [pc EXCEPT ![w] = "upd_recipe"]
    /\ UNCHANGED db

\* a variant of UpdateRecipeRow that goes on when no row matched
UpdateRecipeRowUnchecked(w) ==
    /\ pc[w] = "upd_recipe"
    /\ ~RowLockedByOther(w, op[w].id)
    /\ LET o == op[w]
           found == {r \in db["recipes"] : r.id = o.id}
           new == RecipeRow(o.id, o.req, tx[w].ts, tx[w].ts)
       IN  Step(w, TxInsert(TxDelete(tx[w], "recipes", found), "recipes", new),
                o, "del_ri")

\* 1. UPDATE recipes SET ..., updated_at = CURRENT_TIMESTAMP WHERE id = $1
\*    RETURNING id.  The statement waits for the row lock; no row is
\*    pgx.ErrNoRows, "not found for update".
UpdateRecipeRow(w) ==
    /\ pc[w] = "upd_recipe"
    /\ ~RowLockedByOther(w, op[w].id)
    /\ LET o == op[w]
           found == {r \in db["recipes"] : r.id = o.id}
       IN  IF found = {}
           THEN Fail(w, "not_found")
           ELSE LET old == CHOOSE r \in found : TRUE
                    new == RecipeRow(o.id, o.req, old.created_at, tx[w].ts)
                IN  Step(w, TxInsert(TxDelete(tx[w], "recipes", {old}),
                                     "recipes", new),
                         o, "del_ri")

\* a variant of OwnedRows without the WHERE clause: every row of the table
RowsOfAnyRecipe(w, n, id) == View(db, tx[w])[n]

\* the rows of table n that belong to recipe id, as the transaction sees them
OwnedRows(w, n, id) == {r \in View(db, tx[w])[n] : r.recipe_id = id}

\* 2. DELETE FROM recipe_ingredients WHERE recipe_id = $1
\* a variant of DeleteOldIngredients that keeps the old rows
KeepOldIngredients(w) ==
    /\ pc[w] = "del_ri"
    /\ Step(w, tx[w], op[w], "del_rs")

DeleteOldIngredients(w) ==
    /\ pc[w] = "del_ri"
    /\ Step(w, TxDelete(tx[w], "recipe_ingredients",
                        OwnedRows(w, "recipe_ingredients", op[w].id)),
            op[w], "del_rs")

\* a variant of DeleteOldSteps that keeps the old rows
KeepOldSteps(w) ==
    /\ pc[w] = "del_rs"
    /\ Step(w, tx[w], op[w], "del_rt")

\*    DELETE FROM recipe_steps WHERE recipe_id = $1
DeleteOldSteps(w) ==
    /\ pc[w] = "del_rs"
    /\ Step(w, TxDelete(tx[w], "recipe_steps",
                        OwnedRows(w, "recipe_steps", op[w].id)),
            op[w], "del_rt")

\* a variant of DeleteOldTags that also deletes the tags the recipe had
DeleteOldTagsAndNames(w) ==
    /\ pc[w] = "del_rt"
    /\ LET o == [op[w] EXCEPT !.i = 1]
           links == OwnedRows(w, "recipe_tags", o.id)
           t1 == TxDelete(tx[w], "recipe_tags", links)
           t2 == TxDelete(t1, "tags",
                          {t \in View(db, tx[w])["tags"] :
                              \E l \in links : l.tag_id = t.id})
       IN  Step(w, t2, o, PhaseIngredients(o))

\*    DELETE FROM recipe_tags WHERE recipe_id = $1; 3. the three loops
DeleteOldTags(w) ==
    /\ pc[w] = "del_rt"
    /\ LET o == [op[w] EXCEPT !.i = 1]
       IN  Step(w, TxDelete(tx[w], "recipe_tags",
                            OwnedRows(w, "recipe_tags", o.id)),
                o, PhaseIngredients(o))

(***************************************************************************)
(* DeleteRecipe: one statement on the pool                                 *)
(***************************************************************************)
DeleteRecipe(w, id) ==
    /\ pc[w] = "idle"
    /\ nops < MaxOps
    /\ nops' = nops + 1
    /\ op' = [op EXCEPT ![w] = NewOp("delete", nops + 1, id, NoReq)]
    /\ pc' = [pc EXCEPT ![w] = "del_recipe"]
    /\ UNCHANGED <<db, tx>>

\* FOREIGN KEY (recipe_id) REFERENCES recipes(id) ON DELETE CASCADE
\* a variant of CascadeDelete that also deletes the ingredients and tags the
\* recipe referred to
CascadeToReferences(d, id) ==
    [d EXCEPT !["recipes"] = {r \in @ : r.id # id},
              !["recipe_ingredients"] = {r \in @ : r.recipe_id # id},
              !["recipe_steps"] = {r \in @ : r.recipe_id # id},
              !["recipe_tags"] = {r \in @ : r.recipe_id # id},
              !["ingredients"] =
                  {g \in @ : \A r \in d["recipe_ingredients"] :
                                ~(r.recipe_id = id /\ r.ingredient_id = g.id)},
              !["tags"] =
                  {t \in @ : [recipe_id |-> id, tag_id |-> t.id]
                                 \notin d["recipe_tags"]}]

\* a variant of CascadeDelete that removes the rows of the recipe and leaves
\* the recipes row itself
CascadeKeepingRecipe(d, id) ==
    [d EXCEPT !["recipe_ingredients"] = {r \in @ : r.recipe_id # id},
              !["recipe_steps"] = {r \in @ : r.recipe_id # id},
              !["recipe_tags"] = {r \in @ : r.recipe_id # id}]

\* a variant of CascadeDelete whose recipe_tags rows do not follow the recipe
CascadeSparingTags(d, id) ==
    [d EXCEPT !["recipes"] = {r \in @ : r.id # id},
              !["recipe_ingredients"] = {r \in @ : r.recipe_id # id},
              !["recipe_steps"] = {r \in @ : r.recipe_id # id}]

CascadeDelete(d, id) ==
    [d EXCEPT !["recipes"] = {r \in @ : r.id # id},
              !["recipe_ingredients"] = {r \in @ : r.recipe_id # id},
              !["recipe_steps"] = {r \in @ : r.recipe_id # id},
              !["recipe_tags"] = {r \in @ : r.recipe_id # id}]

\* DELETE FROM recipes WHERE id = $1; RowsAffected() == 0 is "not found for
\* deletion".  The statement waits for the row lock.
DeleteRecipeRow(w) ==
    /\ pc[w] = "del_recipe"
    /\ ~RowLockedByOther(w, op[w].id)
    /\ IF \E r \in db["recipes"] : r.id = op[w].id
       THEN /\ db' = CascadeDelete(db, op[w].id)
            /\ pc' = [pc EXCEPT ![w] = "done"]
            /\ UNCHANGED <<tx, op, nops>>
       ELSE FailRead(w, "not_found")

(***************************************************************************)
(* Faults, deadlocks, return                                               *)
(***************************************************************************)
TxStatements ==
    {"ins_recipe", "upd_recipe", "del_ri", "del_rs", "del_rt", "ing_sel",
     "ing_ins", "unit_sel", "unit_ins", "ri_ins", "rs_ins", "tag_sel",
     "tag_ins", "rt_ins", "commit"}

PoolStatements ==
    {"get_recipe", "get_ings", "get_steps", "get_tags", "list_recipes",
     "del_recipe"}

\* a statement of the transaction (or its Commit) returns an error that is
\* no constraint violation: connection loss, cancelled context, deadline
TxFault(w) ==
    /\ pc[w] \in TxStatements
    /\ Fail(w, "fault")

\* the same for a statement on the pool
PoolFault(w) ==
    /\ pc[w] \in PoolStatements
    /\ FailRead(w, "fault")

\* the workers whose uncommitted insert the next statement of w waits for
WaitsFor(w) ==
    CASE pc[w] = "ing_ins" ->
           NamePendingIn(w, "ingredients",
                         op[w].req.ingredients[op[w].i].ingredient_name)
      [] pc[w] = "unit_ins" ->
           NamePendingIn(w, "measurement_units",
                         op[w].req.ingredients[op[w].i].unit_name[1])
      [] pc[w] = "tag_ins" ->
           NamePendingIn(w, "tags", op[w].req.tags[op[w].i].name)
      [] OTHER -> {}

\* a variant of DeadlockVictim that makes every waiting transaction fail
DeadlockAbortsAll(w) ==
    /\ \E v \in WaitsFor(w) : w \in WaitsFor(v)
    /\ pc' = [v \in Workers |-> IF WaitsFor(v) # {} THEN "done" ELSE pc[v]]
    /\ op' = [v \in Workers |->
                 IF WaitsFor(v) # {} THEN Failed(v, "deadlock") ELSE op[v]]
    /\ tx' = [v \in Workers |->
                 IF WaitsFor(v) # {} THEN Rollback(tx[v]) ELSE tx[v]]
    /\ UNCHANGED <<db, nops>>

\* PostgreSQL's deadlock detector: of two inserts that wait for each other's
\* transaction, one is made to fail
DeadlockVictim(w) ==
    /\ \E v \in WaitsFor(w) : w \in WaitsFor(v)
    /\ Fail(w, "deadlock")

(***************************************************************************)
(* ListRecipes                                                             *)
(***************************************************************************)
\* SELECT id, title, ... FROM recipes ORDER BY updated_at DESC, each row
\* scanned into a Recipe whose Ingredients, Steps and Tags stay nil; rows of
\* equal updated_at come in any order
UpdatedAtDescKey(r) == 0 - r.updated_at

\* a variant of ListResults that fills in the steps of each recipe
ListResultsWithSteps(d) ==
    LET Steps(id) ==
            CHOOSE s \in Orderings(StepRows(d, id),
                                   [x \in StepRows(d, id) |-> StepNumberKey(x)]) :
                TRUE
        rows == {[ScanRecipe(r) EXCEPT !.steps = Steps(r.id)] : r \in d["recipes"]}
    IN  Orderings(rows, [x \in rows |-> UpdatedAtDescKey(x)])

ListResults(d) ==
    LET rows == {ScanRecipe(r) : r \in d["recipes"]}
    IN  Orderings(rows, [x \in rows |-> UpdatedAtDescKey(x)])

ListRecipes(w) ==
    /\ pc[w] = "idle"
    /\ nops < MaxOps
    /\ nops' = nops + 1
    /\ op' = [op EXCEPT ![w] = NewOp("list", nops + 1, NoId, NoReq)]
    /\ pc' = [pc EXCEPT ![w] = "list_recipes"]
    /\ UNCHANGED <<db, tx>>

\* the query and the scan of its rows; return recipes, nil
ListRows(w) ==
    /\ pc[w] = "list_recipes"
    /\ \E s \in ListResults(db) :
           op' = [op EXCEPT ![w] = [Returned(@, None, "", "") EXCEPT !.list = s]]
    /\ pc' = [pc EXCEPT ![w] = "done"]
    /\ UNCHANGED <<db, tx, nops>>

(***************************************************************************)
(* The HTTP boundary                                                       *)
(***************************************************************************)
\* strings.Contains(s, substr)
Contains(s, substr) ==
    \E k \in 1..(Len(s) - Len(substr) + 1) :
        SubSeq(s, k, k + Len(substr) - 1) = substr

\* strings.Contains(err.Error(), "not found"), on the text of the error
MentionsNotFound(e) == Contains(e, "not found")

\* the status the handler of a call responds with, given the text of the
\* error the store returned ("" for none): CreateRecipe and ListRecipes answer every error with 500, the
\* others answer 404 when the error text mentions "not found"
StatusOf(kind, e) ==
    CASE e = "" /\ kind = "create" -> 201
      [] e = "" /\ kind = "delete" -> 204
      [] e = "" -> 200
      [] kind \in {"create", "list"} -> 500
      [] MentionsNotFound(e) -> 404
      [] OTHER -> 500

\* the caller has taken the result
Return(w) ==
    /\ pc[w] = "done"
    /\ pc' = [pc EXCEPT ![w] = "idle"]
    /\ op' = [op EXCEPT ![w] = IdleOp]
    /\ UNCHANGED <<db, tx, nops>>

(***************************************************************************)
(* The HTTP handlers: path parameter, body, validation, store call         *)
(***************************************************************************)
\* uuid.Parse, on the identifiers written <<a, b>>
KnownIds == (0..MaxOps) \X (0..3)

ParseUUID(text) ==
    LET m == {id \in KnownIds : UUIDString(id) = text}
    IN  IF m = {} THEN None ELSE Some(CHOOSE id \in m : TRUE)

\* a request body: bytes that are JSON of a RecipeRequest, or are not JSON
Json(req) == [json |-> TRUE, req |-> req]
MalformedBody == [json |-> FALSE, req |-> NoReq]

\* c.ShouldBindJSON(&req)
ShouldBindJSON(payload) == IF payload.json THEN Some(payload.req) ELSE None

\* validator.FieldError: Namespace() and Tag()
FieldError(field, tag) == [namespace |-> <<"RecipeRequest", field>>, tag |-> tag]

Elem(list, k, field) == list \o "[" \o ToString(k - 1) \o "]." \o field

\* Title `required,min=3,max=255`; PhotoFilename `omitempty,max=255`;
\* Serves `omitempty,gt=0`; PrepTimeMinutes, CookTimeMinutes `omitempty,gte=0`
ScalarErrors(req) ==
    (IF req.title = "" THEN {FieldError("Title", "required")}
     ELSE IF Len(req.title) < 3 THEN {FieldError("Title", "min")}
     ELSE IF Len(req.title) > 255 THEN {FieldError("Title", "max")}
     ELSE {})
    \cup (IF req.photo_filename # None /\ Len(req.photo_filename[1]) > 255
          THEN {FieldError("PhotoFilename", "max")} ELSE {})
    \cup (IF req.serves # None /\ ~(req.serves[1] > 0)
          THEN {FieldError("Serves", "gt")} ELSE {})
    \cup (IF req.prep_time_minutes # None /\ ~(req.prep_time_minutes[1] >= 0)
          THEN {FieldError("PrepTimeMinutes", "gte")} ELSE {})
    \cup (IF req.cook_time_minutes # None /\ ~(req.cook_time_minutes[1] >= 0)
          THEN {FieldError("CookTimeMinutes", "gte")} ELSE {})

\* IngredientName `required`; Quantity `omitempty,gt=0`; UnitName
\* `omitempty`; SortOrder `gte=0`
IngredientErrors(line, k) ==
    (IF line.ingredient_name = ""
     THEN {FieldError(Elem("Ingredients", k, "IngredientName"), "required")}
     ELSE {})
    \cup (IF line.quantity # None /\ ~(line.quantity[1] > 0)
          THEN {FieldError(Elem("Ingredients", k, "Quantity"), "gt")} ELSE {})
    \cup (IF ~(line.sort_order >= 0)
          THEN {FieldError(Elem("Ingredients", k, "SortOrder"), "gte")} ELSE {})

\* StepNumber `required,gte=1`; Instruction `required,min=1`;
\* DurationMinutes `omitempty,gte=0`; Temperature `omitempty,max=50`
StepErrors(st, k) ==
    (IF st.step_number = 0
     THEN {FieldError(Elem("Steps", k, "StepNumber"), "required")}
     ELSE IF ~(st.step_number >= 1)
     THEN {FieldError(Elem("Steps", k, "StepNumber"), "gte")}
     ELSE {})
    \cup (IF st.instruction = ""
          THEN {FieldError(Elem("Steps", k, "Instruction"), "required")}
          ELSE {})
    \cup (IF st.duration_minutes # None /\ ~(st.duration_minutes[1] >= 0)
          THEN {FieldError(Elem("Steps", k, "DurationMinutes"), "gte")}
          ELSE {})
    \cup (IF st.temperature # None /\ Len(st.temperature[1]) > 50
          THEN {FieldError(Elem("Steps", k, "Temperature"), "max")} ELSE {})

\* Name `required,min=1,max=100`
TagErrors(t, k) ==
    IF t.name = "" THEN {FieldError(Elem("Tags", k, "Name"), "required")}
    ELSE IF Len(t.name) > 100 THEN {FieldError(Elem("Tags", k, "Name"), "max")}
    ELSE {}

\* validate.Struct(req); Ingredients, Steps and Tags are `omitempty,dive`
ValidateStruct(req) ==
    ScalarErrors(req)
    \cup UNION {IngredientErrors(req.ingredients[k], k) :
                   k \in 1..Len(req.ingredients)}
    \cup UNION {StepErrors(req.steps[k], k) : k \in 1..Len(req.steps)}
    \cup UNION {TagErrors(req.tags[k], k) : k \in 1..Len(req.tags)}

\* formatValidationErrors: the namespace without the name of the top-level
\* struct is the key, the failed tag is in the text
formatValidationErrors(errs) ==
    [f \in {e.namespace[2] : e \in errs} |->
        (CHOOSE e \in errs : e.namespace[2] = f).tag]

\* c.JSON(code, APIError{Error: message, Status: code}); the message is a
\* prefix followed by the text of an error
RespondWithError(code, prefix, text) ==
    [status |-> code, error |-> <<prefix, text>>]

\* c.JSON(code, gin.H{"status": code, "error": message, "details": details})
RespondWithDetailedError(code, message, details) ==
    [status |-> code, error |-> <<message>>, details |-> details]

\* the handler answered without calling the store
Reject(w, kind, at, req, code, body) ==
    /\ pc[w] = "idle"
    /\ nops < MaxOps
    /\ nops' = nops + 1
    /\ op' = [op EXCEPT ![w] =
                 [IdleOp EXCEPT !.kind = kind, !.seq = nops + 1, !.req = req,
                                !.at = at, !.code = code, !.body = body]]
    /\ pc' = [pc EXCEPT ![w] = "sent"]
    /\ UNCHANGED <<db, tx>>

RejectParam(w, kind) ==
    Reject(w, kind, "param", NoReq, 400,
           RespondWithError(400, "Invalid recipe ID format: ", "invalid UUID"))

RejectBody(w, kind) ==
    Reject(w, kind, "bind", NoReq, 400,
           RespondWithError(400, "Invalid request payload: ", "invalid JSON"))

RejectFields(w, kind, req) ==
    Reject(w, kind, "validate", req, 400,
           RespondWithDetailedError(400, "Validation failed",
               formatValidationErrors(ValidateStruct(req))))

\* a variant of HandleCreateRecipe that does not validate the request
HandleCreateRecipeUnvalidated(w, payload) ==
    IF ShouldBindJSON(payload) = None THEN RejectBody(w, "create")
    ELSE CreateRecipe(w, payload.req)

\* RecipeHandler.CreateRecipe up to the call of the store
HandleCreateRecipe(w, payload) ==
    IF ShouldBindJSON(payload) = None THEN RejectBody(w, "create")
    ELSE IF ValidateStruct(payload.req) # {}
    THEN RejectFields(w, "create", payload.req)
    ELSE CreateRecipe(w, payload.req)

\* RecipeHandler.GetRecipe up to the call of the store
HandleGetRecipe(w, param) ==
    IF ParseUUID(param) = None THEN RejectParam(w, "get")
    ELSE GetRecipeByID(w, ParseUUID(param)[1])

\* RecipeHandler.ListRecipes up to the call of the store
HandleListRecipes(w) == ListRecipes(w)

\* a variant of HandleUpdateRecipe that binds the body before it parses the id
HandleUpdateRecipeBodyFirst(w, param, payload) ==
    IF ShouldBindJSON(payload) = None THEN RejectBody(w, "update")
    ELSE IF ValidateStruct(payload.req) # {}
    THEN RejectFields(w, "update", payload.req)
    ELSE IF ParseUUID(param) = None THEN RejectParam(w, "update")
    ELSE UpdateRecipe(w, ParseUUID(param)[1], payload.req)

\* RecipeHandler.UpdateRecipe up to the call of the store
HandleUpdateRecipe(w, param, payload) ==
    IF ParseUUID(param) = None THEN RejectParam(w, "update")
    ELSE IF ShouldBindJSON(payload) = None THEN RejectBody(w, "update")
    ELSE IF ValidateStruct(payload.req) # {}
    THEN RejectFields(w, "update", payload.req)
    ELSE UpdateRecipe(w, ParseUUID(param)[1], payload.req)

\* RecipeHandler.DeleteRecipe up to the call of the store
HandleDeleteRecipe(w, param) ==
    IF ParseUUID(param) = None THEN RejectParam(w, "delete")
    ELSE DeleteRecipe(w, ParseUUID(param)[1])

\* the prefix a handler puts before the text of a store error
ErrorPrefix(kind, code) ==
    CASE kind = "create" -> "Failed to create recipe: "
      [] kind = "list" -> "Failed to list recipes: "
      [] kind = "get" /\ code = 404 -> "Recipe not found: "
      [] kind = "get" -> "Failed to get recipe: "
      [] kind = "update" /\ code = 404 -> "Recipe not found for update: "
      [] kind = "update" -> "Failed to update recipe: "
      [] kind = "delete" /\ code = 404 -> "Recipe not found for deletion: "
      [] OTHER -> "Failed to delete recipe: "

\* what the handler writes once the store has returned: RespondWithError on
\* an error, RespondWithJSON of the recipe, the list or nil otherwise
ResponseBody(o) ==
    IF o.err # ""
    THEN RespondWithError(StatusOf(o.kind, o.msg),
                          ErrorPrefix(o.kind, StatusOf(o.kind, o.msg)), o.msg)
    ELSE IF o.kind = "list" THEN o.list
    ELSE IF o.kind = "delete" THEN None
    ELSE o.recipe[1]

\* the store call has returned and the handler responds
Respond(w) ==
    /\ pc[w] = "done"
    /\ op' = [op EXCEPT ![w].code = StatusOf(op[w].kind, op[w].msg),
                         ![w].body = ResponseBody(op[w])]
    /\ pc' = [pc EXCEPT ![w] = "sent"]
    /\ UNCHANGED <<db, tx, nops>>

\* the handler has returned; the worker takes the next request
HandlerReturn(w) ==
    /\ pc[w] = "sent"
    /\ pc' = [pc EXCEPT ![w] = "idle"]
    /\ op' = [op EXCEPT ![w] = IdleOp]
    /\ UNCHANGED <<db, tx, nops>>

\* identifiers a caller may pass: those of the recipes stored, those that
\* earlier calls generated for a recipe (stored no longer, or never
\* committed), and one that was never generated
MissingId == <<0, 0>>
EarlierIds == {<<s, 1>> : s \in 1..nops}
TargetIds == {r.id : r \in db["recipes"]} \cup EarlierIds \cup {MissingId}

\* the requests of the concurrent specification
ConcRequests == {ReqSoup, ReqDip, ReqDupStep, ReqDupIng}

\* the requests concurrent callers update with: one more, that names nothing
UpdateRequests == ConcRequests \cup {ReqPlain}

Next ==
    \E w \in Workers :
        \/ \E req \in ConcRequests : CreateRecipe(w, req)
        \/ InsertRecipe(w)
        \/ SelectIngredient(w)
        \/ InsertIngredient(w)
        \/ SelectUnit(w)
        \/ InsertUnit(w)
        \/ InsertRecipeIngredient(w)
        \/ InsertRecipeStep(w)
        \/ SelectTag(w)
        \/ InsertTag(w)
        \/ InsertRecipeTag(w)
        \/ Commit(w)
        \/ \E id \in TargetIds : GetRecipeByID(w, id)
        \/ GetRecipeRow(w)
        \/ GetIngredients(w)
        \/ GetSteps(w)
        \/ GetTags(w)
        \/ ListRecipes(w)
        \/ ListRows(w)
        \/ \E id \in TargetIds, req \in UpdateRequests : UpdateRecipe(w, id, req)
        \/ UpdateRecipeRow(w)
        \/ DeleteOldIngredients(w)
        \/ DeleteOldSteps(w)
        \/ DeleteOldTags(w)
        \/ \E id \in TargetIds : DeleteRecipe(w, id)
        \/ DeleteRecipeRow(w)
        \/ TxFault(w)
        \/ PoolFault(w)
        \/ DeadlockVictim(w)
        \/ Return(w)

Spec == Init /\ [][Next]_vars

\* the steps of a call the store and the calling goroutine take without
\* anything else having to happen: every statement sent is executed (an
\* insert or a row update once what it waits for has ended), the commit is
\* performed, the deadlock detector runs.  Calls need not be made, faults
\* need not occur.
StatementStep(w) ==
    \/ InsertRecipe(w)
    \/ SelectIngredient(w)
    \/ InsertIngredient(w)
    \/ SelectUnit(w)
    \/ InsertUnit(w)
    \/ InsertRecipeIngredient(w)
    \/ InsertRecipeStep(w)
    \/ SelectTag(w)
    \/ InsertTag(w)
    \/ InsertRecipeTag(w)
    \/ Commit(w)
    \/ GetRecipeRow(w)
    \/ GetIngredients(w)
    \/ GetSteps(w)
    \/ GetTags(w)
    \/ ListRows(w)
    \/ UpdateRecipeRow(w)
    \/ DeleteOldIngredients(w)
    \/ DeleteOldSteps(w)
    \/ DeleteOldTags(w)
    \/ DeleteRecipeRow(w)
    \/ DeadlockVictim(w)

\* the concurrent specification with every call in flight carried on
LiveSpec == Spec /\ \A w \in Workers : WF_vars(StatementStep(w))

\* one worker, calls one after the other, every request
SeqWorker == "w1"

SeqNext ==
    \/ \E req \in Requests : CreateRecipe(SeqWorker, req)
    \/ InsertRecipe(SeqWorker)
    \/ SelectIngredient(SeqWorker)
    \/ InsertIngredient(SeqWorker)
    \/ SelectUnit(SeqWorker)
    \/ InsertUnit(SeqWorker)
    \/ InsertRecipeIngredient(SeqWorker)
    \/ InsertRecipeStep(SeqWorker)
    \/ SelectTag(SeqWorker)
    \/ InsertTag(SeqWorker)
    \/ InsertRecipeTag(SeqWorker)
    \/ Commit(SeqWorker)
    \/ \E id \in TargetIds : GetRecipeByID(SeqWorker, id)
    \/ GetRecipeRow(SeqWorker)
    \/ GetIngredients(SeqWorker)
    \/ GetSteps(SeqWorker)
    \/ GetTags(SeqWorker)
    \/ ListRecipes(SeqWorker)
    \/ ListRows(SeqWorker)
    \/ \E id \in TargetIds, req \in Requests : UpdateRecipe(SeqWorker, id, req)
    \/ UpdateRecipeRow(SeqWorker)
    \/ DeleteOldIngredients(SeqWorker)
    \/ DeleteOldSteps(SeqWorker)
    \/ DeleteOldTags(SeqWorker)
    \/ \E id \in TargetIds : DeleteRecipe(SeqWorker, id)
    \/ DeleteRecipeRow(SeqWorker)
    \/ TxFault(SeqWorker)
    \/ PoolFault(SeqWorker)
    \/ Return(SeqWorker)

SeqSpec == SeqInit /\ [][SeqNext]_vars

\* one worker behind the HTTP handlers: path parameters that are and are not
\* identifiers, bodies that are and are not JSON, requests that do and do not
\* meet the field constraints
HttpWorker == "w1"

HttpRequests == {ReqDip, ReqDupStep, ReqOddName, ReqNoTitle, ReqBadLines}

HttpPayloads == {Json(req) : req \in HttpRequests} \cup {MalformedBody}

HttpParams == {UUIDString(id) : id \in TargetIds} \cup {"invalid-uuid"}

HttpNext ==
    \/ \E payload \in HttpPayloads : HandleCreateRecipe(HttpWorker, payload)
    \/ \E param \in HttpParams : HandleGetRecipe(HttpWorker, param)
    \/ HandleListRecipes(HttpWorker)
    \/ \E param \in HttpParams, payload \in HttpPayloads :
           HandleUpdateRecipe(HttpWorker, param, payload)
    \/ \E param \in HttpParams : HandleDeleteRecipe(HttpWorker, param)
    \/ InsertRecipe(HttpWorker)
    \/ SelectIngredient(HttpWorker)
    \/ InsertIngredient(HttpWorker)
    \/ SelectUnit(HttpWorker)
    \/ InsertUnit(HttpWorker)
    \/ InsertRecipeIngredient(HttpWorker)
    \/ InsertRecipeStep(HttpWorker)
    \/ SelectTag(HttpWorker)
    \/ InsertTag(HttpWorker)
    \/ InsertRecipeTag(HttpWorker)
    \/ Commit(HttpWorker)
    \/ GetRecipeRow(HttpWorker)
    \/ GetIngredients(HttpWorker)
    \/ GetSteps(HttpWorker)
    \/ GetTags(HttpWorker)
    \/ ListRows(HttpWorker)
    \/ UpdateRecipeRow(HttpWorker)
    \/ DeleteOldIngredients(HttpWorker)
    \/ DeleteOldSteps(HttpWorker)
    \/ DeleteOldTags(HttpWorker)
    \/ DeleteRecipeRow(HttpWorker)
    \/ TxFault(HttpWorker)
    \/ PoolFault(HttpWorker)
    \/ Respond(HttpWorker)
    \/ HandlerReturn(HttpWorker)

HttpSpec == Init /\ [][HttpNext]_vars

(***************************************************************************)
(* models.MeasurementSystem and its sql.Scanner                            *)
(*   a driver value is written [type, v]: its dynamic Go type and, for     *)
(*   []byte and string, its content (for the others a rendering of it)     *)
(***************************************************************************)
Metric == "metric"
Imperial == "imperial"

DriverValue(type, v) == [type |-> type, v |-> v]

\* func (ms *MeasurementSystem) Scan(value interface{}) error, on the target
\* ms: the target after the call and the error returned ("" for nil)
Scan(ms, value) ==
    IF value.type \notin {"[]byte", "string"}
    THEN [ms |-> ms,
          err |-> "failed to scan MeasurementSystem: expected string or "
                      \o "[]byte, got " \o value.type]
    ELSE LET s == value.v
         IN  [ms |-> s,
              err |-> IF s \in {Metric, Imperial} THEN ""
                      ELSE "invalid MeasurementSystem value: " \o s]

\* contents a []byte or string value may carry
ScanTexts ==
    {"metric", "imperial", "", "Metric", "METRIC", "imperial ", " metric",
     "metrics", "imperia", "us", "customary"}

\* values a driver may hand to Scan
ScanValues ==
    {DriverValue(t, s) : t \in {"[]byte", "string"}, s \in ScanTexts}
        \cup {DriverValue("<nil>", ""), DriverValue("int64", "0"),
              DriverValue("int64", "1"), DriverValue("float64", "1.5"),
              DriverValue("bool", "true"), DriverValue("time.Time", "")}

\* what the target may hold before the call
ScanTargets == {"", Metric, Imperial, "us"}

ScanWorker == "w1"

\* a worker about to call ms.Scan(value): the locals of the call
ScanLocals(ms, value) == [kind |-> "scan", ms |-> ms, value |-> value, err |-> ""]

ScanInit ==
    /\ db = SeedTables
    /\ tx = [w \in Workers |-> NoTx]
    /\ nops = 0
    /\ pc = [w \in Workers |-> IF w = ScanWorker THEN "scan" ELSE "idle"]
    /\ \E ms \in ScanTargets, value \in ScanValues :
           op = [w \in Workers |->
                    IF w = ScanWorker THEN ScanLocals(ms, value) ELSE IdleOp]

\* the call
MeasurementSystemScan(w) ==
    /\ pc[w] = "scan"
    /\ op' = [op EXCEPT ![w].ms = Scan(op[w].ms, op[w].value).ms,
                         ![w].err = Scan(op[w].ms, op[w].value).err]
    /\ pc' = [pc EXCEPT ![w] = "scanned"]
    /\ UNCHANGED <<db, tx, nops>>

ScanNext == MeasurementSystemScan(ScanWorker)

ScanSpec == ScanInit /\ [][ScanNext]_vars

\* the sequential specification reaches the initial state of Spec
StoredReached == db = StoredTables /\ nops = 1 /\ pc[SeqWorker] = "idle"
NotStoredReached == ~StoredReached

(***************************************************************************)
(* Vocabulary of the properties                                            *)
(***************************************************************************)
RefTables == {"ingredients", "measurement_units", "tags"}
LinkTables == {"recipe_ingredients", "recipe_steps", "recipe_tags"}

\* the committed rows that carry an identifier generated by call number s:
\* its recipe row, its reference rows, the link rows of its recipe
RowsOfCall(d, s) ==
    {r \in d["recipes"] \cup UNION {d[n] : n \in RefTables} : r.id[1] = s}
        \cup {r \in UNION {d[n] : n \in LinkTables} : r.recipe_id[1] = s}

\* the call of w returned an error raised before its Commit succeeded
FailedBeforeCommit(w) ==
    /\ pc[w] = "done"
    /\ op[w].err # ""
    /\ op[w].at \in {"first", "resolve", "tx"}

\* the step of the behaviour is a step of worker w
Moves(w) == pc'[w] # pc[w] \/ op'[w] # op[w] \/ tx'[w] # tx[w]

(***************************************************************************)
(* C1  Create is all-or-nothing: while a CreateRecipe has not committed,   *)
(* and after it returned an error raised before its commit, the tables     *)
(* hold no recipe row, no link row and no reference row written by that    *)
(* call, and the first SELECT of a get on the attempted id finds no row.   *)
(***************************************************************************)
C1_CreateAllOrNothing ==
    \A w \in Workers :
        (op[w].kind = "create" /\ (pc[w] \in TxStatements \/ FailedBeforeCommit(w)))
            => /\ RowsOfCall(db, op[w].seq) = {}
               /\ {r \in db["recipes"] : r.id = op[w].id} = {}

\* a create failed on the second of two equal step numbers, after it had
\* inserted its recipe row, an ingredient and a step
C1_Witness ==
    \E w \in Workers :
        /\ op[w].kind = "create" /\ FailedBeforeCommit(w)
        /\ op[w].req = ReqDupStep /\ op[w].err = "conflict" /\ op[w].at = "tx"

(***************************************************************************)
(* Comparing an assembled recipe with a request                            *)
(***************************************************************************)
Range(s) == {s[k] : k \in 1..Len(s)}

NameOrEmpty(x) == IF x = None THEN "" ELSE x[1]

\* an assembled ingredient, in the terms of a request's ingredient line
LineOfRow(row) ==
    [ingredient_name |-> row.ingredient_name, quantity |-> row.quantity,
     unit_name |-> IF row.unit = None THEN "" ELSE row.unit[1].name,
     notes |-> row.notes, sort_order |-> row.sort_order]

\* the ingredient line as the request gives it (no unit and "" alike)
LineOfReq(line) ==
    [ingredient_name |-> line.ingredient_name, quantity |-> line.quantity,
     unit_name |-> NameOrEmpty(line.unit_name),
     notes |-> line.notes, sort_order |-> line.sort_order]

\* a quantity (in ten-thousandths) to three decimal places, half up
ThreeDecimals(q) ==
    IF q = None THEN None ELSE Some(((q[1] + 5) \div 10) * 10)

\* the ingredient line with its quantity to three decimal places
LineRounded(line) ==
    [LineOfReq(line) EXCEPT !.quantity = ThreeDecimals(@)]

TagNames(req) == {req.tags[k].name : k \in 1..Len(req.tags)}

SameScalars(rec, req) ==
    /\ rec.title = req.title
    /\ rec.description = req.description
    /\ rec.photo_filename = req.photo_filename
    /\ rec.serves = req.serves
    /\ rec.prep_time_minutes = req.prep_time_minutes
    /\ rec.cook_time_minutes = req.cook_time_minutes
    /\ rec.created_by = req.created_by

\* the assembled recipe is what storing req, whole, leaves to read
IsStored(rec, req) ==
    /\ SameScalars(rec, req)
    /\ Len(rec.ingredients) = Len(req.ingredients)
    /\ {LineOfRow(x) : x \in Range(rec.ingredients)}
           = {LineRounded(l) : l \in Range(req.ingredients)}
    /\ Len(rec.steps) = Len(req.steps)
    /\ Range(rec.steps) = Range(req.steps)
    /\ Len(rec.tags) = Len(req.tags)
    /\ {t.name : t \in Range(rec.tags)} = TagNames(req)

\* the recipe id as the committed tables d hold it, lists as sets
Aggregate(d, id) ==
    [recipe |-> {r \in d["recipes"] : r.id = id},
     ingredients |-> IngredientRows(d, id),
     steps |-> StepRows(d, id),
     tags |-> TagRows(d, id)]

\* every committed recipe is some request stored whole
CommittedAreWhole ==
    \A r \in db["recipes"] :
        \E req \in Requests :
            /\ SameScalars(r, req)
            /\ {LineOfRow(x) : x \in IngredientRows(db, r.id)}
                   = {LineRounded(l) : l \in Range(req.ingredients)}
            /\ StepRows(db, r.id) = Range(req.steps)
            /\ {t.name : t \in TagRows(db, r.id)} = TagNames(req)

(***************************************************************************)
(* C2  A reader never observes a partially written aggregate: the recipe   *)
(* a GetRecipeByID returns is one request stored whole (its scalar fields  *)
(* together with its ingredients, steps and tags), never scalar fields of  *)
(* one state with lists of another.  Every committed state of a recipe is  *)
(* a request stored whole (CommittedAreWhole), so a result that is none    *)
(* is neither the pre-state nor the post-state of any mutation.            *)
(***************************************************************************)
C2_ReadIsSnapshot ==
    \A w \in Workers :
        (pc[w] = "done" /\ op[w].kind = "get" /\ op[w].err = "")
            => \E req \in Requests : IsStored(op[w].recipe[1], req)

(***************************************************************************)
(* C3  Update is all-or-nothing: no step of an UpdateRecipe other than its *)
(* successful Commit changes a committed table, so that a call that fails  *)
(* after its UPDATE of the scalar row (at a delete, a resolution, an       *)
(* insert or the commit) leaves every table as it found it.                *)
(***************************************************************************)
C3_UpdateAllOrNothing ==
    [][\A w \in Workers :
          (op[w].kind = "update" /\ pc[w] \in TxStatements /\ Moves(w)
              /\ pc'[w] # "get_recipe")
            => db' = db]_vars

\* an update failed after the scalar row was updated
C3_Witness ==
    \E w \in Workers :
        /\ op[w].kind = "update" /\ FailedBeforeCommit(w)
        /\ op[w].at \in {"resolve", "tx"}
        /\ \E r \in db["recipes"] : r.id = op[w].id

(***************************************************************************)
(* C4  Update has replace semantics: when an UpdateRecipe(id, req)         *)
(* commits, the ingredient, step and tag-link rows of recipe id are        *)
(* exactly those req describes, whatever the recipe had before, and the    *)
(* row counts are the lengths of req's lists.                              *)
(***************************************************************************)
LinkCount(d, n, id) == Cardinality({r \in d[n] : r.recipe_id = id})

C4_UpdateReplacesLists ==
    [][\A w \in Workers :
          (op[w].kind = "update" /\ pc[w] = "commit" /\ pc'[w] = "get_recipe")
              => LET id == op[w].id
                     req == op[w].req
                 IN  /\ {LineOfRow(x) : x \in IngredientRows(db', id)}
                            = {LineRounded(l) : l \in Range(req.ingredients)}
                     /\ LinkCount(db', "recipe_ingredients", id)
                            = Len(req.ingredients)
                     /\ StepRows(db', id) = Range(req.steps)
                     /\ LinkCount(db', "recipe_steps", id) = Len(req.steps)
                     /\ {t.name : t \in TagRows(db', id)} = TagNames(req)
                     /\ LinkCount(db', "recipe_tags", id) = Len(req.tags)]_vars

\* an update by a request of one ingredient line has committed on a recipe
\* that ReqThree had created (the call that created it also created feta and
\* oil): of its three ingredient rows, one is left
C4_Witness ==
    \E w \in Workers :
        /\ op[w].kind = "update" /\ pc[w] = "get_recipe"
        /\ Len(op[w].req.ingredients) = 1
        /\ LinkCount(db, "recipe_ingredients", op[w].id) = 1
        /\ \E g, h \in db["ingredients"] :
               /\ g.name = "feta" /\ g.id[1] = op[w].id[1]
               /\ h.name = "oil" /\ h.id[1] = op[w].id[1]

(***************************************************************************)
(* C5  Round trip, with no concurrent mutation: the recipe a successful    *)
(* CreateRecipe reads back has the request's ingredient lines in ascending *)
(* sort order, the request's steps in ascending step number and the        *)
(* requested tag names.  As stated, quantities come back as requested;     *)
(* the store keeps them to three decimal places.                           *)
(***************************************************************************)
Ascending(keys) == \A k \in 1..(Len(keys) - 1) : keys[k] <= keys[k + 1]

Created(w) == pc[w] = "done" /\ op[w].kind = "create" /\ op[w].err = ""

ReadsBack(rec, req, lines) ==
    /\ Len(rec.ingredients) = Len(req.ingredients)
    /\ {LineOfRow(x) : x \in Range(rec.ingredients)}
           = lines
    /\ Ascending([k \in 1..Len(rec.ingredients) |->
                     SortOrderKey(rec.ingredients[k])])
    /\ Len(rec.steps) = Len(req.steps)
    /\ Range(rec.steps) = Range(req.steps)
    /\ Ascending([k \in 1..Len(rec.steps) |-> StepNumberKey(rec.steps[k])])
    /\ Len(rec.tags) = Len(req.tags)
    /\ {t.name : t \in Range(rec.tags)} = TagNames(req)

UniqueByName(d) ==
    \A n \in RefTables : \A a, b \in d[n] : a.name = b.name => a = b

ResolvedIs(w, n, name, id) ==
    \E r \in View(db, tx[w])[n] : r.name = name /\ r.id = id

LineAt(w) == op[w].req.ingredients[op[w].i]

ResolvedInView(w) ==
    /\ pc[w] \in {"unit_sel", "unit_ins", "ri_ins"}
           => ResolvedIs(w, "ingredients", LineAt(w).ingredient_name,
                         op[w].ingredientID)
    /\ (pc[w] = "ri_ins" /\ op[w].unitID # None)
           => ResolvedIs(w, "measurement_units", LineAt(w).unit_name[1],
                         op[w].unitID[1])
    /\ pc[w] = "rt_ins"
           => ResolvedIs(w, "tags", op[w].req.tags[op[w].i].name, op[w].tagID)

SameUnitAsEarlierLine(w) ==
    (pc[w] = "ri_ins" /\ op[w].unitID # None)
        => \A k \in 1..(op[w].i - 1) :
               LET earlier == op[w].req.ingredients[k]
                   v == View(db, tx[w])
               IN  earlier.unit_name = LineAt(w).unit_name
                       => \A r \in v["recipe_ingredients"] :
                              (/\ r.recipe_id = op[w].id
                               /\ \E g \in v["ingredients"] :
                                      /\ g.id = r.ingredient_id
                                      /\ g.name = earlier.ingredient_name)
                                  => r.unit_id = op[w].unitID

C6_ResolutionIdempotent ==
    /\ [](/\ UniqueByName(db)
          /\ \A w \in Workers :
                 /\ UniqueByName(View(db, tx[w]))
                 /\ ResolvedInView(w)
                 /\ SameUnitAsEarlierLine(w))
    /\ [][\A n \in RefTables : db[n] \subseteq db'[n]]_vars

\* ReqSoup's second line names the unit of its first line, which this call
\* created: the second lookup found the row the first one inserted
C6_Witness ==
    \E w \in Workers :
        /\ pc[w] = "ri_ins" /\ op[w].req = ReqSoup /\ op[w].i = 2
        /\ op[w].unitID # None /\ op[w].unitID[1][1] = op[w].seq
        /\ \E r \in View(db, tx[w])["recipe_ingredients"] :
               r.recipe_id = op[w].id /\ r.unit_id = op[w].unitID

(***************************************************************************)
(* C7  Find-or-create race.  As stated: the transaction whose insert hits  *)
(* the uniqueness violation re-reads the other's row and goes on, so no    *)
(* call ends with a uniqueness violation from a name resolution.  The      *)
(* code returns the error: the losing call ends with it, having returned   *)
(* no recipe, its transaction rolled back and nothing it wrote in the      *)
(* store.                                                                  *)
(***************************************************************************)
LostRace(w) ==
    pc[w] = "done" /\ op[w].err = "conflict" /\ op[w].at = "resolve"

\* the claim as stated
C7_RaceRecovered == \A w \in Workers : ~LostRace(w)

\* the claim as the code has it
C7_RaceLoserFails ==
    \A w \in Workers :
        LostRace(w)
            => /\ op[w].recipe = None
               /\ tx[w] = NoTx
               /\ RowsOfCall(db, op[w].seq) = {}

\* one call lost the race, and the call that won it has returned its recipe
C7_Witness ==
    \E w \in Workers :
        /\ LostRace(w)
        /\ \E v \in Workers \ {w} :
               /\ pc[v] = "done" /\ op[v].err = "" /\ op[v].recipe # None
               /\ op[v].kind \in {"create", "update"}
               /\ \E n \in RefTables : \E r \in db[n] : r.id[1] = op[v].seq

(***************************************************************************)
(* C8  The race is backstopped by the unique index: the committed          *)
(* reference tables never hold two rows of one name, and a transaction     *)
(* about to insert a name that another one has committed in the meantime   *)
(* can only return an error, with its transaction rolled back and the      *)
(* committed tables as they were.                                          *)
(***************************************************************************)
InsertedName(w) ==
    CASE pc[w] = "ing_ins" -> <<"ingredients", LineAt(w).ingredient_name>>
      [] pc[w] = "unit_ins" -> <<"measurement_units", LineAt(w).unit_name[1]>>
      [] pc[w] = "tag_ins" -> <<"tags", op[w].req.tags[op[w].i].name>>
      [] OTHER -> <<"", "">>

Beaten(w) ==
    /\ pc[w] \in {"ing_ins", "unit_ins", "tag_ins"}
    /\ \E r \in db[InsertedName(w)[1]] : r.name = InsertedName(w)[2]

C8_UniqueIndexBackstop ==
    /\ [](\A n \in RefTables :
              \A a, b \in db[n] : a.name = b.name => a.id = b.id)
    /\ [][\A w \in Workers :
             (Beaten(w) /\ Moves(w))
                 => /\ pc'[w] = "done" /\ op'[w].err # ""
                    /\ op'[w].recipe = None
                    /\ tx'[w] = NoTx
                    /\ db' = db]_vars

\* the lookup of this transaction missed the name, and the other call has
\* committed it since
C8_Witness ==
    \E w \in Workers :
        /\ Beaten(w)
        /\ \E r \in db[InsertedName(w)[1]] :
               r.name = InsertedName(w)[2] /\ r.id[1] # op[w].seq /\ r.id[1] > 1

(***************************************************************************)
(* C9  Derived total time: every stored recipe has total_time_minutes =    *)
(* prep + cook, an absent one counting as 0 when the other is present, and *)
(* absent exactly when both are absent.                                    *)
(***************************************************************************)
OrZero(x) == IF x = None THEN 0 ELSE x[1]

ClaimedTotal(prep, cook) ==
    IF prep = None /\ cook = None THEN None
    ELSE Some(OrZero(prep) + OrZero(cook))

C9_DerivedTotalTime ==
    \A r \in db["recipes"] :
        r.total_time_minutes
            = ClaimedTotal(r.prep_time_minutes, r.cook_time_minutes)

(***************************************************************************)
(* C10  Cascade delete keeps shared references: when DeleteRecipe(id)      *)
(* deletes the recipe, no ingredient, step or tag-link row of id remains,  *)
(* the ingredients, measurement units and tags are unchanged, and every    *)
(* other recipe assembles to the aggregate it assembled to before.         *)
(***************************************************************************)
C10_CascadeKeepsReferences ==
    [][\A w \in Workers :
          (pc[w] = "del_recipe" /\ pc'[w] = "done" /\ op'[w].err = "")
              => LET id == op[w].id
                 IN  /\ \A n \in LinkTables : LinkCount(db', n, id) = 0
                     /\ \A r \in db'["recipes"] : r.id # id
                     /\ \A n \in RefTables : db'[n] = db[n]
                     /\ \A r \in db["recipes"] :
                            r.id # id
                                => Aggregate(db', r.id) = Aggregate(db, r.id)]_vars

\* the deleted recipe's call had created an ingredient that a remaining
\* recipe is linked to
C10_Witness ==
    \E w \in Workers :
        /\ pc[w] = "done" /\ op[w].kind = "delete" /\ op[w].err = ""
        /\ \E r \in db["recipes"] :
               \E x \in IngredientRows(db, r.id) :
                   x.ingredient_id[1] = op[w].id[1]

(***************************************************************************)
(* C11  NotFound on a missing id: the first statement of GetRecipeByID,    *)
(* UpdateRecipe and DeleteRecipe, run when no recipe row has the id, ends  *)
(* the call with the not-found error (a storage fault aside) and no        *)
(* result; the committed tables are unchanged and the transaction of an    *)
(* update is rolled back, so that no reference row of the request is       *)
(* created.                                                                *)
(***************************************************************************)
NoSuchRecipe(w) == \A r \in db["recipes"] : r.id # op[w].id

AtRowStatement(w) == pc[w] \in {"get_recipe", "upd_recipe", "del_recipe"}

C11_NotFoundOnMissingId ==
    [][\A w \in Workers :
          (AtRowStatement(w) /\ NoSuchRecipe(w) /\ Moves(w))
              => /\ pc'[w] = "done"
                 /\ op'[w].err \in {"not_found", "fault"}
                 /\ op'[w].recipe = None
                 /\ tx'[w] = NoTx
                 /\ db' = db]_vars

\* an update by ReqSoup of an id that was never stored has returned not
\* found, and the unit and the ingredient it names are still unseen
C11_Witness ==
    \E w \in Workers :
        /\ pc[w] = "done" /\ op[w].kind = "update" /\ op[w].id = MissingId
        /\ op[w].err = "not_found" /\ op[w].req = ReqSoup
        /\ \A u \in db["measurement_units"] : u.name # "pinch"
        /\ \A g \in db["ingredients"] : g.name # "oil"

(***************************************************************************)
(* C12  Error classes are distinguishable at the boundary: a call that     *)
(* ended with not found, or with a uniqueness conflict, is answered with   *)
(* a status other than the one a generic storage fault of the same call    *)
(* is answered with.                                                       *)
(***************************************************************************)
C12_ErrorClassesDistinct ==
    \A w \in Workers :
        (pc[w] = "done" /\ op[w].err \in {"not_found", "conflict"})
            => StatusOf(op[w].kind, op[w].msg)
                   # StatusOf(op[w].kind, CauseText("fault"))

(***************************************************************************)
(* C13  Last commit wins on one recipe: when an UpdateRecipe commits, the  *)
(* stored aggregate of its recipe (scalar fields and all ingredient, step  *)
(* and tag-link rows) is exactly its request, whatever another update of   *)
(* the same recipe, begun before or after it, has committed before: no     *)
(* row of the other request is left.                                       *)
(***************************************************************************)
WholeIn(d, id, req) ==
    /\ \E r \in d["recipes"] : r.id = id
    /\ \A r \in d["recipes"] : r.id = id => SameScalars(r, req)
    /\ Cardinality({r \in d["recipes"] : r.id = id}) = 1
    /\ {LineOfRow(x) : x \in IngredientRows(d, id)}
           = {LineRounded(l) : l \in Range(req.ingredients)}
    /\ LinkCount(d, "recipe_ingredients", id) = Len(req.ingredients)
    /\ StepRows(d, id) = Range(req.steps)
    /\ LinkCount(d, "recipe_steps", id) = Len(req.steps)
    /\ {t.name : t \in TagRows(d, id)} = TagNames(req)
    /\ LinkCount(d, "recipe_tags", id) = Len(req.tags)

HasCommitted(v) ==
    \/ pc[v] \in {"get_recipe", "get_ings", "get_steps", "get_tags"}
    \/ pc[v] = "done" /\ op[v].at \notin {"first", "resolve", "tx"}

C13_LastCommitWins ==
    [][\A w \in Workers :
          (op[w].kind = "update" /\ pc[w] = "commit" /\ pc'[w] = "get_recipe")
              => WholeIn(db', op[w].id, op[w].req)]_vars

\* two updates of one recipe with different requests have both committed;
\* the one that began first committed last, and the recipe is its request
C13_Witness ==
    \E w \in Workers : \E v \in Workers \ {w} :
        /\ op[w].kind = "update" /\ op[v].kind = "update"
        /\ op[w].id = op[v].id /\ op[w].req # op[v].req
        /\ op[w].seq < op[v].seq
        /\ HasCommitted(v) /\ pc[w] = "get_recipe"
        /\ WholeIn(db, op[w].id, op[w].req)
        /\ ~WholeIn(db, op[v].id, op[v].req)

(***************************************************************************)
(* C14  Scoped transactions: a call that has returned, or is not running,  *)
(* has no open transaction; CreateRecipe and UpdateRecipe hold one exactly *)
(* while they run the statements of their transaction, and have closed it  *)
(* (commit or rollback) on every exit path.                                *)
(***************************************************************************)
C14_ScopedTransactions ==
    \A w \in Workers :
        /\ pc[w] \in {"idle", "done"} \cup PoolStatements => tx[w] = NoTx
        /\ pc[w] \in TxStatements => tx[w].active

\* an update has returned the error of the deadlock detector, another call
\* has returned its recipe after its commit
C14_Witness ==
    \E w \in Workers : \E v \in Workers \ {w} :
        /\ pc[w] = "done" /\ op[w].kind \in {"create", "update"}
        /\ op[w].err = "deadlock"
        /\ pc[v] = "done" /\ op[v].kind \in {"create", "update"}
        /\ op[v].err = "" /\ op[v].recipe # None

(***************************************************************************)
(* C15  Cancellation rolls back: when the caller's cancellation or         *)
(* deadline makes a statement of the transaction of CreateRecipe or        *)
(* UpdateRecipe (its Commit included) return an error, that step leaves    *)
(* the committed tables as they are and drops the write set; and while the *)
(* failed call is there to be seen, in no later state do the committed     *)
(* tables hold a row the call generated or a recipe row it stamped.        *)
(***************************************************************************)
Cancelled(w) ==
    /\ pc[w] = "done" /\ op[w].kind \in {"create", "update"}
    /\ op[w].err = "fault" /\ op[w].at \in {"first", "resolve", "tx"}

NothingVisibleOf(w) ==
    /\ RowsOfCall(db, op[w].seq) = {}
    /\ \A r \in db["recipes"] : r.updated_at # op[w].seq

C15_CancellationRollsBack ==
    /\ [](\A w \in Workers : Cancelled(w) => tx[w] = NoTx /\ NothingVisibleOf(w))
    /\ [][\A w \in Workers :
             (pc[w] \in TxStatements /\ op'[w].err = "fault")
                 => db' = db /\ tx'[w] = NoTx /\ op'[w].recipe = None]_vars

\* an update was cancelled after it had written to its transaction (it had
\* reached its commit), and the other caller has committed an update of the
\* same recipe since
C15_Witness ==
    \E w \in Workers : \E v \in Workers \ {w} :
        /\ Cancelled(w) /\ op[w].kind = "update" /\ op[w].at = "tx"
        /\ op[v].kind = "update" /\ op[v].id = op[w].id /\ op[v].seq > op[w].seq
        /\ HasCommitted(v) /\ pc[v] = "done"
        /\ \E r \in db["recipes"] : r.id = op[w].id /\ r.updated_at = op[v].seq

(***************************************************************************)
(* C16  List is scalar-only and complete: the list a successful            *)
(* ListRecipes returns has exactly one entry per committed recipe row,     *)
(* with that row's scalar fields, and every entry has empty ingredients,   *)
(* steps and tags, whatever the recipe owns.                               *)
(***************************************************************************)
EntryOfRow(e, r) ==
    /\ e.id = r.id /\ SameScalars(e, r)
    /\ e.total_time_minutes = r.total_time_minutes
    /\ e.created_at = r.created_at /\ e.updated_at = r.updated_at

C16_ListScalarOnly ==
    [][\A w \in Workers :
          (pc[w] = "list_recipes" /\ pc'[w] = "done" /\ op'[w].err = "")
              => LET l == op'[w].list
                 IN  /\ Len(l) = Cardinality(db["recipes"])
                     /\ \A r \in db["recipes"] :
                            \E k \in 1..Len(l) : EntryOfRow(l[k], r)
                     /\ \A k \in 1..Len(l) :
                            /\ l[k].ingredients = <<>>
                            /\ l[k].steps = <<>>
                            /\ l[k].tags = <<>>]_vars

\* a list of two recipes was returned, and both own ingredient, step or
\* tag-link rows
C16_Witness ==
    \E w \in Workers :
        /\ pc[w] = "done" /\ op[w].kind = "list" /\ op[w].err = ""
        /\ Len(op[w].list) = 2
        /\ \A k \in 1..2 :
               /\ LinkCount(db, "recipe_ingredients", op[w].list[k].id) > 0
               /\ LinkCount(db, "recipe_steps", op[w].list[k].id) > 0

(***************************************************************************)
(* C17  List order follows update recency: when a CreateRecipe or an       *)
(* UpdateRecipe commits, every other recipe's last create or update has    *)
(* completed earlier, so that, until another create or update succeeds,    *)
(* every list ListRecipes can return has the affected recipe first.        *)
(***************************************************************************)
C17_ListOrderFollowsRecency ==
    [][\A w \in Workers :
          (op[w].kind \in {"create", "update"} /\ pc[w] = "commit"
              /\ pc'[w] = "get_recipe")
              => \A s \in ListResults(db') : s[1].id = op[w].id]_vars

(***************************************************************************)
(* C18  Update timestamp: when an UpdateRecipe(id) commits, the recipe's   *)
(* updated_at is not earlier than it was, and its id and created_at are    *)
(* unchanged; every other step of an update leaves the committed row, and  *)
(* so its updated_at, as it was.                                           *)
(***************************************************************************)
RowOf(d, id) == {r \in d["recipes"] : r.id = id}

C18_UpdateTimestamp ==
    [][\A w \in Workers :
          op[w].kind = "update" /\ pc[w] \in TxStatements /\ Moves(w)
              => IF pc[w] = "commit" /\ pc'[w] = "get_recipe"
                 THEN \A old \in RowOf(db, op[w].id) :
                          \E new \in RowOf(db', op[w].id) :
                              /\ new.created_at = old.created_at
                              /\ new.updated_at >= old.updated_at
                 ELSE RowOf(db', op[w].id) = RowOf(db, op[w].id)]_vars

(***************************************************************************)
(* C19  Absent or empty unit: for an ingredient line whose unit_name is    *)
(* absent or "", Create and Update never run the unit lookup or the unit   *)
(* insert, store the junction row with no unit reference, and the recipe   *)
(* they return carries no nested unit on that ingredient; a line with a    *)
(* non-empty unit_name is stored with the reference of the unit of that    *)
(* name and returned with that unit.                                       *)
(***************************************************************************)
UnitGiven(line) == line.unit_name \notin {None, Some("")}

NoLookupWithoutUnit(w) ==
    pc[w] \in {"unit_sel", "unit_ins"} => UnitGiven(LineAt(w))

StoredUnit(w) ==
    \A row \in tx'[w].ins["recipe_ingredients"]
                   \ tx[w].ins["recipe_ingredients"] :
        IF UnitGiven(LineAt(w))
        THEN /\ row.unit_id # None
             /\ \E u \in View(db, tx[w])["measurement_units"] :
                    u.id = row.unit_id[1] /\ u.name = LineAt(w).unit_name[1]
        ELSE row.unit_id = None

ReturnedUnits(w) ==
    (pc[w] = "done" /\ op[w].kind \in {"create", "update"} /\ op[w].err = "")
        => \A l \in Range(op[w].req.ingredients) :
               \E x \in Range(op[w].recipe[1].ingredients) :
                   /\ x.ingredient_name = l.ingredient_name
                   /\ IF UnitGiven(l)
                      THEN x.unit # None /\ x.unit[1].name = l.unit_name[1]
                      ELSE x.unit = None

C19_AbsentOrEmptyUnit ==
    /\ [](\A w \in Workers : NoLookupWithoutUnit(w) /\ ReturnedUnits(w))
    /\ [][\A w \in Workers :
             (pc[w] = "ri_ins" /\ pc'[w] # "done" /\ Moves(w)) => StoredUnit(w)]_vars

\* an update by ReqSalad has returned: salt, requested with the unit name
\* "", has no unit, oil has the unit pinch, and no unit is named ""
C19_Witness ==
    \E w \in Workers :
        /\ pc[w] = "done" /\ op[w].kind = "update" /\ op[w].err = ""
        /\ op[w].req = ReqSalad
        /\ \E x, y \in Range(op[w].recipe[1].ingredients) :
               /\ x.ingredient_name = "salt" /\ x.unit = None
               /\ y.ingredient_name = "oil" /\ y.unit # None
        /\ \A u \in db["measurement_units"] : u.name # ""

(***************************************************************************)
(* C20  Default unit system: every measurement_units row that is not one   *)
(* of the rows the schema seeds has the system metric, whether committed   *)
(* or still pending in a transaction; no committed unit row is ever        *)
(* changed or removed, and the lookup of a unit name writes nothing (a     *)
(* lookup that fails only rolls its transaction back), so a seeded         *)
(* imperial unit stays imperial.                                           *)
(***************************************************************************)
SeedUnits == SeedTables["measurement_units"]

UnitsEverywhere ==
    db["measurement_units"]
        \cup UNION {tx[w].ins["measurement_units"] : w \in Workers}

CreatedUnitsMetric ==
    /\ SeedUnits \subseteq db["measurement_units"]
    /\ \A u \in UnitsEverywhere \ SeedUnits : u.system = "metric"

LookupWritesNothing(w) ==
    (pc[w] = "unit_sel" /\ Moves(w))
        => /\ db' = db
           /\ pc'[w] # "done" => /\ tx'[w].ins = tx[w].ins
                                 /\ tx'[w].del = tx[w].del

C21_ReferenceRowsStay ==
    [][\A n \in RefTables : \A r \in db[n] : r \in db'[n]]_vars

\* an update and a delete have both succeeded and have left an ingredient, a
\* unit and a tag to which no recipe refers
C21_Witness ==
    /\ \E w \in Workers :
           pc[w] = "done" /\ op[w].kind = "update" /\ op[w].err = ""
    /\ \E w \in Workers :
           pc[w] = "done" /\ op[w].kind = "delete" /\ op[w].err = ""
    /\ \E g \in db["ingredients"] :
           \A r \in db["recipe_ingredients"] : r.ingredient_id # g.id
    /\ \E u \in db["measurement_units"] \ SeedUnits :
           \A r \in db["recipe_ingredients"] : r.unit_id # Some(u.id)
    /\ \E t \in db["tags"] :
           \A r \in db["recipe_tags"] : r.tag_id # t.id

(***************************************************************************)
(* C22  Reads are side-effect-free.  As stated: two completed reads of one *)
(* recipe that both show the recipe as the store now holds it are equal.   *)
(***************************************************************************)
ReadPcs == {"get_recipe", "get_ings", "get_steps", "get_tags", "list_recipes"}

ReadStep(w) ==
    Moves(w) /\ (pc[w] \in ReadPcs \/ op'[w].kind \in {"get", "list"})

HasRead(w) == pc[w] = "done" /\ op[w].err = "" /\ op[w].recipe # None

ShowsStore(rec) ==
    /\ \E r \in db["recipes"] :
           ScanRecipe(r) = [rec EXCEPT !.ingredients = <<>>, !.steps = <<>>,
                                       !.tags = <<>>]
    /\ Range(rec.ingredients) = IngredientRows(db, rec.id)
    /\ Range(rec.steps) = StepRows(db, rec.id)
    /\ Range(rec.tags) = TagRows(db, rec.id)

C22_RepeatedReadSame ==
    \A w, v \in Workers :
        ( /\ HasRead(w) /\ HasRead(v)
          /\ op[w].recipe[1].id = op[v].recipe[1].id
          /\ ShowsStore(op[w].recipe[1]) /\ ShowsStore(op[v].recipe[1]) )
            => op[w].recipe = op[v].recipe

\* C22 as amended: every step of GetRecipeByID and of ListRecipes, failing
\* ones included, leaves every table and every transaction unchanged, and
\* each of their statements returns exactly the rows the store holds when it
\* runs, in ascending order of its key; the order of rows with equal keys is
\* not determined
InKeyOrder(s, rows, key) ==
    /\ Len(s) = Cardinality(rows)
    /\ Range(s) = rows
    /\ Ascending([k \in 1..Len(s) |-> key[s[k]]])

ReturnsStoreRows(w) ==
    /\ (pc[w] = "get_recipe" /\ pc'[w] = "get_ings")
           => \E r \in db["recipes"] :
                  r.id = op[w].id /\ op'[w].recipe = Some(ScanRecipe(r))
    /\ (pc[w] = "get_ings" /\ pc'[w] = "get_steps")
           => InKeyOrder(op'[w].recipe[1].ingredients,
                         IngredientRows(db, op[w].id),
                         [r \in IngredientRows(db, op[w].id) |-> r.sort_order])
    /\ (pc[w] = "get_steps" /\ pc'[w] = "get_tags")
           => InKeyOrder(op'[w].recipe[1].steps, StepRows(db, op[w].id),
                         [r \in StepRows(db, op[w].id) |-> r.step_number])
    /\ (pc[w] = "get_tags" /\ op'[w].err = "")
           => InKeyOrder(op'[w].recipe[1].tags, TagRows(db, op[w].id),
                         [r \in TagRows(db, op[w].id) |-> NameRank(r.name)])
    /\ (pc[w] = "list_recipes" /\ op'[w].err = "")
           => InKeyOrder(op'[w].list, {ScanRecipe(r) : r \in db["recipes"]},
                         [r \in {ScanRecipe(x) : x \in db["recipes"]} |->
                             0 - r.updated_at])

C22_ReadsLeaveTables ==
    [][\A w \in Workers :
          ReadStep(w) => db' = db /\ tx' = tx /\ ReturnsStoreRows(w)]_vars

\* CreateRecipe(ReqSoup) has returned and a GetRecipeByID of the new recipe
\* has returned: both show the two ingredient rows of sort order 0 that the
\* store holds, in different orders
C22_Witness ==
    \E w, v \in Workers :
        /\ HasRead(w) /\ HasRead(v)
        /\ op[w].kind = "create" /\ op[v].kind = "get"
        /\ op[w].recipe[1].id = op[v].recipe[1].id
        /\ ShowsStore(op[w].recipe[1]) /\ ShowsStore(op[v].recipe[1])
        /\ Len(op[w].recipe[1].ingredients) = 2
        /\ op[w].recipe[1].ingredients # op[v].recipe[1].ingredients

(***************************************************************************)
(* C23  One junction row per (recipe, ingredient): the committed tables    *)
(* never hold two recipe_ingredients rows of one recipe and one            *)
(* ingredient; a CreateRecipe or UpdateRecipe whose request names an       *)
(* ingredient twice never reaches its commit, returns an error and leaves  *)
(* nothing of itself in the committed tables, and the junction insert of   *)
(* the repeated line, when it runs, fails as a conflict.                   *)
(***************************************************************************)
OneRowPerPair ==
    \A r1, r2 \in db["recipe_ingredients"] :
        (r1.recipe_id = r2.recipe_id /\ r1.ingredient_id = r2.ingredient_id)
            => r1 = r2

NamesTwice(req) ==
    \E i, j \in 1..Len(req.ingredients) :
        i < j /\ req.ingredients[i].ingredient_name
                     = req.ingredients[j].ingredient_name

RepeatedLine(w) ==
    \E k \in 1..(op[w].i - 1) :
        op[w].req.ingredients[k].ingredient_name = LineAt(w).ingredient_name

C23_OneJunctionRowPerIngredient ==
    /\ [](/\ OneRowPerPair
          /\ \A w \in Workers :
                (op[w].kind \in {"create", "update"} /\ NamesTwice(op[w].req))
                    => /\ pc[w] \notin ReadPcs
                       /\ NothingVisibleOf(w)
                       /\ pc[w] = "done" => op[w].err # "" /\ op[w].recipe = None)
    /\ [][\A w \in Workers :
             (pc[w] = "ri_ins" /\ Moves(w) /\ RepeatedLine(w)
                  /\ op'[w].err # "fault")
                 => pc'[w] = "done" /\ op'[w].err = "conflict"]_vars

\* an UpdateRecipe by ReqDupIng has failed as a conflict at a statement
\* after its first, and the recipe it addressed is stored as before
C23_Witness ==
    \E w \in Workers :
        /\ pc[w] = "done" /\ op[w].kind = "update" /\ op[w].req = ReqDupIng
        /\ op[w].err = "conflict" /\ op[w].at = "tx"
        /\ WholeIn(db, op[w].id, ReqTart)

(***************************************************************************)
(* C24  Step numbers are unique within a recipe: in every reachable state  *)
(* the committed recipe_steps rows of one recipe have pairwise different   *)
(* step numbers, and so have the rows each open transaction sees.          *)
(***************************************************************************)
StepNumbersUnique(rows) ==
    \A r1, r2 \in rows :
        (r1.recipe_id = r2.recipe_id /\ r1.step_number = r2.step_number)
            => r1 = r2

C24_StepNumbersUnique ==
    /\ StepNumbersUnique(db["recipe_steps"])
    /\ \A w \in Workers : StepNumbersUnique(View(db, tx[w])["recipe_steps"])

\* a call by ReqDupStep failed as a conflict on its second step, an update
\* committed steps in place of the old ones, and a recipe has step rows
C24_Witness ==
    /\ \E w \in Workers :
           /\ pc[w] = "done" /\ op[w].req = ReqDupStep
           /\ op[w].err = "conflict" /\ op[w].at = "tx"
    /\ \E w \in Workers :
           /\ pc[w] = "done" /\ op[w].kind = "update" /\ op[w].err = ""
           /\ Len(op[w].req.steps) > 0
           /\ LinkCount(db, "recipe_steps", op[w].id) = Len(op[w].req.steps)

(***************************************************************************)
(* C25  Invalid input never reaches the store: a create or update request  *)
(* whose body is not JSON, or whose fields violate a constraint of the     *)
(* request shape, is answered with 400 in the step that receives it, with  *)
(* no table and no transaction touched; no store call of a create or an    *)
(* update ever holds a request that violates a constraint; the details of  *)
(* a validation answer name the offending fields.                          *)
(***************************************************************************)
\* the constraints of the request shape: title of 3 to 255 characters, photo
\* reference of at most 255, serves above 0, times not negative; per line a
\* name, a quantity above 0, a sort order not negative; per step a number
\* from 1, an instruction, a duration not negative, a temperature of at most
\* 50 characters; per tag a name of 1 to 100 characters
MeetsConstraints(req) ==
    /\ Len(req.title) \in 3..255
    /\ req.photo_filename # None => Len(req.photo_filename[1]) <= 255
    /\ req.serves # None => req.serves[1] > 0
    /\ req.prep_time_minutes # None => req.prep_time_minutes[1] >= 0
    /\ req.cook_time_minutes # None => req.cook_time_minutes[1] >= 0
    /\ \A l \in Range(req.ingredients) :
           /\ Len(l.ingredient_name) > 0
           /\ l.quantity # None => l.quantity[1] > 0
           /\ l.sort_order >= 0
    /\ \A st \in Range(req.steps) :
           /\ st.step_number >= 1
           /\ Len(st.instruction) > 0
           /\ st.duration_minutes # None => st.duration_minutes[1] >= 0
           /\ st.temperature # None => Len(st.temperature[1]) <= 50
    /\ \A t \in Range(req.tags) : Len(t.name) \in 1..100

InStore(w) == pc[w] \in TxStatements \cup PoolStatements \cup {"done"}

Mutation(w) == op[w].kind \in {"create", "update"}

NamedFields(w) == DOMAIN op[w].body.details

RejectedInput(w) ==
    (pc[w] = "sent" /\ Mutation(w) /\ op[w].at \in {"bind", "validate"})
        => /\ op[w].code = 400 /\ op[w].body.status = 400
           /\ tx[w] = NoTx
           /\ op[w].at = "validate"
                  => /\ ~MeetsConstraints(op[w].req)
                     /\ NamedFields(w) # {}
                     /\ op[w].req = ReqNoTitle => NamedFields(w) = {"Title"}
                     /\ op[w].req = ReqBadLines
                            => NamedFields(w) =
                                   {"Title", "Serves",
                                    "Ingredients[1].IngredientName",
                                    "Ingredients[1].Quantity",
                                    "Ingredients[1].SortOrder",
                                    "Steps[0].StepNumber", "Tags[0].Name"}

BadPayload(payload) == ~payload.json \/ ~MeetsConstraints(payload.req)

C25_InvalidInputRejected ==
    /\ [](\A w \in Workers :
             /\ (InStore(w) /\ Mutation(w)) => MeetsConstraints(op[w].req)
             /\ RejectedInput(w))
    /\ [][\A w \in Workers, payload \in HttpPayloads :
             ( /\ BadPayload(payload)
               /\ \/ HandleCreateRecipe(w, payload)
                  \/ \E param \in HttpParams :
                         HandleUpdateRecipe(w, param, payload) )
                 => /\ pc'[w] = "sent" /\ op'[w].code = 400
                    /\ db' = db /\ tx' = tx]_vars

\* an update whose body violates seven field constraints was answered with
\* 400 and the seven fields, and the addressed recipe is stored as before
C25_Witness ==
    \E w \in Workers :
        /\ pc[w] = "sent" /\ op[w].kind = "update" /\ op[w].at = "validate"
        /\ op[w].req = ReqBadLines /\ op[w].code = 400
        /\ Cardinality(NamedFields(w)) = 7
        /\ db = StoredTables

(***************************************************************************)
(* C26  Malformed id is rejected first: a get, update or delete whose id   *)
(* path parameter is not the text of a UUID is answered, in the step that  *)
(* receives it, with 400 and an error that begins "Invalid recipe ID       *)
(* format", whatever the body is, with no request bound and no table and   *)
(* no transaction touched; every store call by id holds a parsed id.       *)
(***************************************************************************)
NotUUIDText(param) == \A id \in KnownIds : UUIDString(id) # param

ById(w) == op[w].kind \in {"get", "update", "delete"}

IdRejected(o) ==
    /\ o.code = 400 /\ o.body.status = 400
    /\ o.body.error[1] = "Invalid recipe ID format: "
    /\ o.req = NoReq /\ o.id = NoId /\ o.recipe = None

C26_MalformedIdRejectedFirst ==
    /\ [](\A w \in Workers :
             /\ (pc[w] = "sent" /\ op[w].at = "param")
                    => ById(w) /\ IdRejected(op[w]) /\ tx[w] = NoTx
             /\ (InStore(w) /\ ById(w)) => op[w].id \in KnownIds)
    /\ [][\A w \in Workers, param \in HttpParams, payload \in HttpPayloads :
             ( /\ NotUUIDText(param)
               /\ \/ HandleGetRecipe(w, param)
                  \/ HandleUpdateRecipe(w, param, payload)
                  \/ HandleDeleteRecipe(w, param) )
                 => /\ pc'[w] = "sent" /\ op'[w].at = "param"
                    /\ IdRejected(op'[w])
                    /\ db' = db /\ tx' = tx]_vars

\* the last request the bound admits, a delete of an id that is no UUID,
\* was answered with 400 and the store is as it was at the start
C26_Witness ==
    \E w \in Workers :
        /\ pc[w] = "sent" /\ op[w].kind = "delete" /\ op[w].at = "param"
        /\ op[w].code = 400 /\ nops = MaxOps
        /\ db = StoredTables

(***************************************************************************)
(* C27  Store outcome to HTTP status: a request with a valid id and a      *)
(* valid body enters the store in the step that receives it, and once the  *)
(* store has returned the handler only responds: 201 (create) or 200       *)
(* (update) with the recipe the store returned, 404 when the store         *)
(* reported the recipe of a get, update or delete as not found, and for    *)
(* every other store error 500, with status field 500 and an error text    *)
(* that contains the store's message.                                      *)
(***************************************************************************)
StoreEntries ==
    {"ins_recipe", "upd_recipe", "get_recipe", "del_recipe", "list_recipes"}

AnsweredStore(w) ==
    pc[w] = "sent" /\ op[w].at \notin {"param", "bind", "validate"}

StatusAsClaimed(o) ==
    /\ (o.err = "" /\ o.kind = "create")
           => o.code = 201 /\ o.recipe # None /\ o.body = o.recipe[1]
    /\ (o.err = "" /\ o.kind = "update")
           => o.code = 200 /\ o.recipe # None /\ o.body = o.recipe[1]
    /\ (o.err = "not_found" /\ o.kind \in {"get", "update", "delete"})
           => o.code = 404
    /\ (o.err # "" /\ ~(o.err = "not_found"
                          /\ o.kind \in {"get", "update", "delete"}))
           => /\ o.code = 500 /\ o.body.status = 500
              /\ \E k \in 1..Len(o.body.error) :
                     Contains(o.body.error[k], o.msg)

C27_StoreOutcomeToStatus ==
    /\ [](\A w \in Workers : AnsweredStore(w) => StatusAsClaimed(op[w]))
    /\ [][\A w \in Workers :
             /\ (pc[w] = "idle" /\ pc'[w] \notin {"idle", "sent"})
                    => pc'[w] \in StoreEntries
             /\ (pc[w] = "done" /\ Moves(w))
                    => pc'[w] = "sent" /\ db' = db /\ tx' = tx]_vars

(***************************************************************************)
(* C28  The scenario of the specification: a CreateRecipe of Tart (serves  *)
(* 4, prep 15, cook 25, feta 200 gram at sort order 0, step 1, tag         *)
(* vegetarian) that returns without error returns total_time_minutes 40,   *)
(* exactly one ingredient, feta, carrying the unit gram, exactly one step  *)
(* and exactly one tag, vegetarian; the unit and the tag are the rows the  *)
(* schema seeded, and no second row of either name exists.                 *)
(***************************************************************************)
GramUnit == CHOOSE u \in SeedTables["measurement_units"] : u.name = "gram"
VegetarianTag == CHOOSE t \in SeedTables["tags"] : t.name = "vegetarian"

CreatedTart(w) ==
    pc[w] = "done" /\ op[w].kind = "create" /\ op[w].err = ""
        /\ op[w].req = ReqTart

TartAsSpecified(r) ==
    /\ r.title = "Tart" /\ r.serves = Some(4)
    /\ r.total_time_minutes = Some(40)
    /\ Len(r.ingredients) = 1
    /\ r.ingredients[1].ingredient_name = "feta"
    /\ r.ingredients[1].quantity = Qty(200)
    /\ r.ingredients[1].sort_order = 0
    /\ r.ingredients[1].unit = Some(GramUnit)
    /\ Len(r.steps) = 1
    /\ r.steps[1].step_number = 1
    /\ r.tags = <<VegetarianTag>>

ReusesSeedRows ==
    /\ {u \in db["measurement_units"] : u.name = "gram"} = {GramUnit}
    /\ {t \in db["tags"] : t.name = "vegetarian"} = {VegetarianTag}

C28_TartScenario ==
    \A w \in Workers :
        CreatedTart(w) => TartAsSpecified(op[w].recipe[1]) /\ ReusesSeedRows

\* the Tart has been created twice: both creations are stored, the second
\* has returned as specified and found the ingredient feta of the first
C28_Witness ==
    \E w \in Workers :
        /\ CreatedTart(w)
        /\ Cardinality({r \in db["recipes"] : r.title = "Tart"}) = 2
        /\ Cardinality({i \in db["ingredients"] : i.name = "feta"}) = 1
        /\ op[w].recipe[1].total_time_minutes = Some(40)

(***************************************************************************)
(* C29  Assembly order is by key, not by insertion: every recipe a call    *)
(* returns has its ingredients in ascending sort_order, its steps in       *)
(* ascending step_number and its tags in ascending name; the recipe a      *)
(* create or update returns holds the lines of its request, whatever the   *)
(* order in which the request listed them.                                 *)
(***************************************************************************)
ReturnedRecipe(w) ==
    pc[w] = "done" /\ op[w].err = "" /\ op[w].kind \in {"create", "get", "update"}

AssembledByKey(r) ==
    /\ Ascending([k \in 1..Len(r.ingredients) |-> r.ingredients[k].sort_order])
    /\ Ascending([k \in 1..Len(r.steps) |-> r.steps[k].step_number])
    /\ Ascending([k \in 1..Len(r.tags) |-> NameRank(r.tags[k].name)])

HoldsLinesOf(r, req) ==
    /\ {<<x.ingredient_name, x.sort_order>> : x \in Range(r.ingredients)}
           = {<<l.ingredient_name, l.sort_order>> : l \in Range(req.ingredients)}
    /\ {<<x.step_number, x.instruction>> : x \in Range(r.steps)}
           = {<<l.step_number, l.instruction>> : l \in Range(req.steps)}
    /\ {x.name : x \in Range(r.tags)} = {l.name : l \in Range(req.tags)}

C29_AssemblyOrderByKey ==
    \A w \in Workers :
        ReturnedRecipe(w) =>
            /\ AssembledByKey(op[w].recipe[1])
            /\ op[w].kind \in {"create", "update"}
                   => HoldsLinesOf(op[w].recipe[1], op[w].req)

\* the request listed steps 2 then 1, sort orders 1 then 0 and the tags
\* vegetarian then vegan; the recipe returned has each the other way round
C29_Witness ==
    \E w \in Workers :
        /\ ReturnedRecipe(w) /\ op[w].kind = "create" /\ op[w].req = ReqSalad
        /\ op[w].req.steps[1].step_number = 2
        /\ [k \in 1..2 |-> op[w].recipe[1].steps[k].step_number] = <<1, 2>>
        /\ [k \in 1..2 |-> op[w].recipe[1].ingredients[k].ingredient_name]
               = <<"oil", "salt">>
        /\ [k \in 1..2 |-> op[w].recipe[1].tags[k].name]
               = <<"vegan", "vegetarian">>

(***************************************************************************)
(* C30  Referential integrity: in every committed state, under every       *)
(* interleaving of the calls of two workers, each recipe_ingredients,      *)
(* recipe_steps and recipe_tags row refers to a recipes row, each          *)
(* recipe_ingredients row to an ingredients row and, when its unit_id is   *)
(* not NULL, to a measurement_units row, and each recipe_tags row to a     *)
(* tags row.                                                               *)
(***************************************************************************)
IdsOf(d, n) == {r.id : r \in d[n]}

RefersToRecipe(d, n) == \A r \in d[n] : r.recipe_id \in IdsOf(d, "recipes")

ReferentialIntegrity(d) ==
    /\ RefersToRecipe(d, "recipe_ingredients")
    /\ RefersToRecipe(d, "recipe_steps")
    /\ RefersToRecipe(d, "recipe_tags")
    /\ \A r \in d["recipe_ingredients"] :
           /\ r.ingredient_id \in IdsOf(d, "ingredients")
           /\ r.unit_id # None => r.unit_id[1] \in IdsOf(d, "measurement_units")
    /\ \A r \in d["recipe_tags"] : r.tag_id \in IdsOf(d, "tags")

C30_ReferentialIntegrity == ReferentialIntegrity(db)

\* a recipe with junction, step and tag-link rows has been deleted while the
\* other worker has committed a recipe whose rows refer to an ingredient, a
\* unit and a tag it created
C30_Witness ==
    /\ \E w \in Workers : pc[w] = "done" /\ op[w].kind = "delete" /\ op[w].err = ""
    /\ ~\E r \in db["recipes"] : r.title = "Tart"
    /\ \E r \in db["recipe_ingredients"] :
           /\ r.ingredient_id \notin IdsOf(StoredTables, "ingredients")
           /\ r.unit_id # None
           /\ r.unit_id[1] \notin IdsOf(StoredTables, "measurement_units")
    /\ \E r \in db["recipe_tags"] : r.tag_id \notin IdsOf(StoredTables, "tags")

(***************************************************************************)
(* C31  Deletion is permanent: once a DeleteRecipe(id) has returned        *)
(* without error, no recipes row with that id exists in any later state    *)
(* (so no later create produces it), and a GetRecipeByID, UpdateRecipe or  *)
(* DeleteRecipe whose statement on recipes runs while no row with its id   *)
(* exists returns not found, unless the statement itself fails.            *)
(***************************************************************************)
RecipeIds == {<<s, 1>> : s \in 1..MaxOps}

Deleted(id) ==
    \E w \in Workers :
        pc[w] = "done" /\ op[w].kind = "delete" /\ op[w].err = ""
            /\ op[w].id = id

Stored(id) == \E r \in db["recipes"] : r.id = id

LooksUpMissing(w) ==
    /\ pc[w] \in {"get_recipe", "upd_recipe", "del_recipe"}
    /\ ~Stored(op[w].id)
    /\ Moves(w)

C31_DeletionPermanent ==
    /\ \A id \in RecipeIds : [](Deleted(id) => []~Stored(id))
    /\ [][\A w \in Workers :
             LooksUpMissing(w) =>
                 /\ pc'[w] = "done"
                 /\ op'[w].err \in {"not_found", "fault"}
                 /\ db' = db]_vars

\* the recipe stored at the start has been deleted by one call and the next
\* call, an update of the same id, has returned not found
C31_Witness ==
    \E w \in Workers :
        /\ pc[w] = "done" /\ op[w].kind = "update" /\ op[w].err = "not_found"
        /\ op[w].id = <<1, 1>> /\ op[w].seq = 3
        /\ ~Stored(<<1, 1>>)
        /\ \A v \in Workers \ {w} : pc[v] = "idle"

(***************************************************************************)
(* C32  Errors are never swallowed nor partially applied: when a           *)
(* CreateRecipe or UpdateRecipe has returned an error, the committed       *)
(* tables hold nothing the call wrote (no row under an identifier it       *)
(* generated, no scalar row it updated); equivalently, a call whose write  *)
(* is committed has returned without error.  The re-read that follows the  *)
(* commit is part of the call.                                             *)
(***************************************************************************)
ReturnedError(w) ==
    pc[w] = "done" /\ op[w].kind \in {"create", "update"} /\ op[w].err # ""

\* the committed rows the call of w wrote
VisibleWrites(w) ==
    RowsOfCall(db, op[w].seq)
        \cup {r \in db["recipes"] :
                 op[w].kind = "update" /\ r.id = op[w].id
                     /\ r.updated_at = op[w].seq}

C32_ErrorsNeverSwallowed ==
    \A w \in Workers : ReturnedError(w) => VisibleWrites(w) = {}

(***************************************************************************)
(* C33  A 404 answer means the recipe is missing: a get, update or delete  *)
(* handler answers 404 only when the store returned its not-found error,   *)
(* and then no recipes row with the requested id is stored; every other    *)
(* store failure is answered 500.  (One caller: the tables the answer is   *)
(* compared with are the tables the store call ran on.)                    *)
(***************************************************************************)
Answered(w, code) == pc[w] = "sent" /\ op[w].code = code

C33_NotFoundMeansMissing ==
    \A w \in Workers :
        /\ Answered(w, 404) =>
               /\ op[w].kind \in {"get", "update", "delete"}
               /\ op[w].err = "not_found"
               /\ ~Stored(op[w].id)
        /\ (AnsweredStore(w) /\ op[w].err \notin {"", "not_found"})
               => op[w].code = 500

(***************************************************************************)
(* C34  Concurrent operations always terminate: every call in flight       *)
(* eventually returns, with success or an error.  Two transactions that    *)
(* insert new reference names in opposite orders do reach a circular wait  *)
(* (each insert waits for the other's uncommitted row of the same name);   *)
(* it ends only by one of the two being made to fail, after which the      *)
(* other carries on.                                                       *)
(***************************************************************************)
InCall(w) == pc[w] \notin {"idle", "done"}

CircularWait ==
    \E w, v \in Workers : w # v /\ v \in WaitsFor(w) /\ w \in WaitsFor(v)

EveryCallReturns == \A w \in Workers : InCall(w) ~> pc[w] = "done"

WaitEndsByFailure ==
    (CircularWait /\ ~CircularWait')
        => \E w \in Workers :
               /\ pc[w] \in {"ing_ins", "unit_ins", "tag_ins"}
               /\ pc'[w] = "done"
               /\ op'[w].err \in {"deadlock", "fault"}
               /\ \A v \in Workers \ {w} : pc'[v] = pc[v] /\ tx'[v] = tx[v]
               /\ db' = db

C34_CallsTerminate ==
    /\ EveryCallReturns
    /\ CircularWait ~> ~CircularWait
    /\ [][WaitEndsByFailure]_vars

\* the statement as claimed: no circular wait is reachable
C34_NoCircularWait == []~CircularWait /\ EveryCallReturns

\* one call was made to fail as the victim of a deadlock, the other has
\* committed and returned its recipe
C34_Witness ==
    \E w, v \in Workers :
        /\ pc[w] = "done" /\ op[w].err = "deadlock"
        /\ pc[v] = "done" /\ op[v].err = "" /\ op[v].kind \in {"create", "update"}
        /\ op[v].recipe # None

(***************************************************************************)
(* C35  Operations on one recipe do not touch another: a step that changes *)
(* the committed scalar row or the committed ingredient, step or tag-link  *)
(* rows of a recipe is a step of a create, update or delete call on that   *)
(* very id; and the commit of a create adds exactly one recipes row, under *)
(* an id no stored recipe has, and removes none.                           *)
(***************************************************************************)
RowsOfRecipe(d, id) ==
    {r \in d["recipes"] : r.id = id}
        \cup {r \in UNION {d[n] : n \in LinkTables} : r.recipe_id = id}

RecipeIdsIn(d) ==
    {r.id : r \in d["recipes"]}
        \cup {r.recipe_id : r \in UNION {d[n] : n \in LinkTables}}

TouchesOnlyItsRecipe ==
    \A id \in RecipeIdsIn(db) \cup RecipeIdsIn(db') :
        RowsOfRecipe(db', id) # RowsOfRecipe(db, id)
            => \E w \in Workers :
                   /\ Moves(w)
                   /\ op[w].kind \in {"create", "update", "delete"}
                   /\ op[w].id = id

CreateAddsOneRecipe ==
    \A w \in Workers :
        (op[w].kind = "create" /\ pc[w] = "commit" /\ pc'[w] = "get_recipe")
            => /\ ~Stored(op[w].id)
               /\ db'["recipes"] \ db["recipes"]
                      = {r \in db'["recipes"] : r.id = op[w].id}
               /\ Cardinality(db'["recipes"]) = Cardinality(db["recipes"]) + 1
               /\ db["recipes"] \subseteq db'["recipes"]

C35_RecipesIsolated == [][TouchesOnlyItsRecipe /\ CreateAddsOneRecipe]_vars

\* an update of the recipe stored at the start has committed and returned
\* while a recipe created by the other call is stored with its rows
C35_Witness ==
    \E w \in Workers :
        /\ pc[w] = "done" /\ op[w].kind = "update" /\ op[w].err = ""
        /\ op[w].id = <<1, 1>>
        /\ \E r \in db["recipes"] :
               /\ r.id # op[w].id
               /\ \E x \in db["recipe_ingredients"] : x.recipe_id = r.id

(***************************************************************************)
(* C36  Update does not conflict with the recipe's own old rows and is     *)
(* idempotent.  With one caller, an UpdateRecipe returns a uniqueness      *)
(* conflict only when its request repeats an ingredient name, a step       *)
(* number or a tag name within itself, whatever the recipe held before;    *)
(* and when an UpdateRecipe(id, req) commits on a recipe that already      *)
(* stores req whole (as a first UpdateRecipe(id, req) leaves it), the      *)
(* aggregate of id is the same but for updated_at and the ingredients,     *)
(* measurement_units and tags tables are the same.                         *)
(***************************************************************************)
RepeatsWithin(req) ==
    \/ NamesTwice(req)
    \/ \E i, j \in 1..Len(req.steps) :
           i < j /\ req.steps[i].step_number = req.steps[j].step_number
    \/ \E i, j \in 1..Len(req.tags) : i < j /\ req.tags[i].name = req.tags[j].name

NoConflictWithOldRows ==
    \A w \in Workers :
        (pc[w] = "done" /\ op[w].kind = "update" /\ op[w].err = "conflict")
            => RepeatsWithin(op[w].req)

\* the committed tables d hold recipe id as request req stored whole
StoresWhole(d, id, req) ==
    /\ \E r \in d["recipes"] : r.id = id /\ SameScalars(r, req)
    /\ {LineOfRow(x) : x \in IngredientRows(d, id)}
           = {LineRounded(l) : l \in Range(req.ingredients)}
    /\ StepRows(d, id) = Range(req.steps)
    /\ {t.name : t \in TagRows(d, id)} = TagNames(req)

ButUpdatedAt(a) == [a EXCEPT !.recipe = {[r EXCEPT !.updated_at = 0] : r \in @}]

SecondApplicationSame ==
    \A w \in Workers :
        (/\ op[w].kind = "update" /\ pc[w] = "commit" /\ pc'[w] = "get_recipe"
         /\ StoresWhole(db, op[w].id, op[w].req))
            => /\ ButUpdatedAt(Aggregate(db', op[w].id))
                      = ButUpdatedAt(Aggregate(db, op[w].id))
               /\ \A n \in RefTables : db'[n] = db[n]
               /\ StoresWhole(db', op[w].id, op[w].req)

C36_UpdateIdempotent ==
    /\ []NoConflictWithOldRows
    /\ [][SecondApplicationSame]_vars

\* the third call has returned: an update of the only recipe with the
\* request of three ingredient lines, after the second call, the same
\* update, had created the ingredients feta and oil
C36_Witness ==
    \E w \in Workers :
        /\ pc[w] = "done" /\ op[w].kind = "update" /\ op[w].err = ""
        /\ op[w].seq = 3 /\ op[w].req = ReqThree
        /\ db["recipes"] # {} /\ \A r \in db["recipes"] : r.id = op[w].id
        /\ \E f, o \in db["ingredients"] :
               /\ f.name = "feta" /\ f.id[1] = 2
               /\ o.name = "oil" /\ o.id[1] = 2
        /\ StoresWhole(db, op[w].id, ReqThree)

(***************************************************************************)
(* C37  Repeated tag name in one request: when a create or update comes to *)
(* link a tag whose name an earlier entry of its tag list carries, the     *)
(* name has resolved to the tag id already linked, the INSERT into         *)
(* recipe_tags fails, and the call returns an error with nothing of it     *)
(* committed; no call whose tag list repeats a name returns successfully.  *)
(***************************************************************************)
TagsTwice(req) ==
    \E i, j \in 1..Len(req.tags) : i < j /\ req.tags[i].name = req.tags[j].name

RepeatedTag(w) ==
    /\ pc[w] = "rt_ins"
    /\ \E k \in 1..(op[w].i - 1) :
           op[w].req.tags[k].name = op[w].req.tags[op[w].i].name

RepeatedTagFails ==
    \A w \in Workers :
        (RepeatedTag(w) /\ Moves(w)) =>
            /\ \E t \in View(db, tx[w])["tags"] :
                   /\ t.name = op[w].req.tags[op[w].i].name
                   /\ t.id = op[w].tagID
            /\ [recipe_id |-> op[w].id, tag_id |-> op[w].tagID]
                   \in tx[w].ins["recipe_tags"]
            /\ pc'[w] = "done"
            /\ op'[w].err \in {"conflict", "fault"}
            /\ tx'[w] = NoTx
            /\ db' = db

RepeatedTagPersistsNothing ==
    \A w \in Workers :
        (pc[w] = "done" /\ op[w].kind \in {"create", "update"}
             /\ TagsTwice(op[w].req))
            => /\ op[w].err # ""
               /\ op[w].recipe = None
               /\ RowsOfCall(db, op[w].seq) = {}
               /\ ~\E r \in db["recipes"] : SameScalars(r, op[w].req)

C37_RepeatedTagFails ==
    /\ []RepeatedTagPersistsNothing
    /\ [][RepeatedTagFails]_vars

\* an update whose tag list names vegan twice has failed on the second
\* link; the recipe and its tag links are stored as before and no tag vegan
\* exists
C37_Witness ==
    \E w \in Workers :
        /\ pc[w] = "done" /\ op[w].kind = "update" /\ op[w].req = ReqDupTag
        /\ op[w].err = "conflict" /\ op[w].at = "tx"
        /\ \E r \in db["recipes"] : r.id = op[w].id /\ r.title # "DupTag"
        /\ \E l \in db["recipe_tags"] : l.recipe_id = op[w].id
        /\ ~\E t \in db["tags"] : t.name = "vegan"

(***************************************************************************)
(* C38  MeasurementSystem.Scan accepts exactly the two values metric and   *)
(* imperial, given as string or []byte, and returns an error for every     *)
(* other value or type; when it returns an error the target is left as it  *)
(* was.                                                                    *)
(***************************************************************************)
Scans(w) == pc[w] = "scan" /\ pc'[w] = "scanned"

IsSystem(value) ==
    value.type \in {"[]byte", "string"} /\ value.v \in {"metric", "imperial"}

AcceptsTheTwo(w) ==
    IF IsSystem(op[w].value)
    THEN op'[w].err = "" /\ op'[w].ms = op[w].value.v
    ELSE op'[w].err # ""

ErrorLeavesTarget(w) == op'[w].err # "" => op'[w].ms = op[w].ms

C38_ScanAcceptsTwoValues ==
    [][\A w \in Workers : Scans(w) => AcceptsTheTwo(w) /\ ErrorLeavesTarget(w)]_vars

=============================================================================
